---- MODULE Spec2Model ----
(***************************************************************************)
(* A model of the static-analysis toolset of nawi-agent: the architecture *)
(* pattern detector (tools/architecture), the dependency mapper           *)
(* (tools/dependency_mapper.py), the code analyzer                        *)
(* (tools/code_analyzer.py) and the tool registry of the agent (agent.py).*)
(*                                                                         *)
(* Python values are modelled as follows.  A str is a TLA+ string; a list  *)
(* is a sequence; a dict is a sequence of entries in insertion order; an   *)
(* Optional value is a sequence of length 0 (None) or 1.  A confidence is  *)
(* an integer number of hundredths (every weight of the catalog is a       *)
(* multiple of 0.05), so 1.0 is 100 and the threshold 0.3 is 30.           *)
(***************************************************************************)
EXTENDS Integers, Sequences, FiniteSets, TLC

(***************************************************************************)
(* Python built-ins used by the tools.                                     *)
(***************************************************************************)

\* `sub in s` for two str.
Contains(sub, s) ==
  \E i \in 1..(Len(s) - Len(sub) + 1) : SubSeq(s, i, i + Len(sub) - 1) = sub

\* s.startswith(prefix)
StartsWith(s, prefix) ==
  Len(prefix) <= Len(s) /\ SubSeq(s, 1, Len(prefix)) = prefix

\* str.lower() on one character (ASCII letters).
LowerChar(c) ==
  CASE c = "A" -> "a" [] c = "B" -> "b" [] c = "C" -> "c" [] c = "D" -> "d"
    [] c = "E" -> "e" [] c = "F" -> "f" [] c = "G" -> "g" [] c = "H" -> "h"
    [] c = "I" -> "i" [] c = "J" -> "j" [] c = "K" -> "k" [] c = "L" -> "l"
    [] c = "M" -> "m" [] c = "N" -> "n" [] c = "O" -> "o" [] c = "P" -> "p"
    [] c = "Q" -> "q" [] c = "R" -> "r" [] c = "S" -> "s" [] c = "T" -> "t"
    [] c = "U" -> "u" [] c = "V" -> "v" [] c = "W" -> "w" [] c = "X" -> "x"
    [] c = "Y" -> "y" [] c = "Z" -> "z" [] OTHER -> c

RECURSIVE Lower(_)
\* s.lower(), half by half.
Lower(s) ==
  IF Len(s) = 0 THEN ""
  ELSE IF Len(s) = 1 THEN LowerChar(s)
  ELSE Lower(SubSeq(s, 1, Len(s) \div 2)) \o Lower(SubSeq(s, Len(s) \div 2 + 1, Len(s)))

\* [s.lower() for s in names]
LowerAll(names) == [i \in 1..Len(names) |-> Lower(names[i])]

RECURSIVE Join(_, _)
\* sep.join(parts), half by half.
Join(sep, parts) ==
  IF Len(parts) = 0 THEN ""
  ELSE IF Len(parts) = 1 THEN parts[1]
  ELSE Join(sep, SubSeq(parts, 1, Len(parts) \div 2)) \o sep
       \o Join(sep, SubSeq(parts, Len(parts) \div 2 + 1, Len(parts)))

RECURSIVE SumSeq(_)
\* sum(xs)
SumSeq(xs) == IF Len(xs) = 0 THEN 0 ELSE Head(xs) + SumSeq(Tail(xs))

Min(a, b) == IF a <= b THEN a ELSE b

\* any(P(x) for x in xs)
Range(xs) == {xs[i] : i \in 1..Len(xs)}

RECURSIVE Split(_, _)
\* s.split(sep) for a separator of one character, half by half: the last
\* piece of the left half and the first of the right half are one piece.
Split(s, sep) ==
  IF Len(s) = 0 THEN << "" >>
  ELSE IF Len(s) = 1 THEN (IF s = sep THEN << "", "" >> ELSE << s >>)
  ELSE LET left  == Split(SubSeq(s, 1, Len(s) \div 2), sep)
           right == Split(SubSeq(s, Len(s) \div 2 + 1, Len(s)), sep)
       IN  SubSeq(left, 1, Len(left) - 1)
           \o << left[Len(left)] \o right[1] >>
           \o Tail(right)

\* The characters str.strip() removes.
IsSpace(c) == c \in {" ", "\t", "\n", "\r"}

RECURSIVE Strip(_)
\* s.strip()
Strip(s) ==
  IF Len(s) = 0 THEN s
  ELSE IF IsSpace(SubSeq(s, 1, 1)) THEN Strip(SubSeq(s, 2, Len(s)))
  ELSE IF IsSpace(SubSeq(s, Len(s), Len(s))) THEN Strip(SubSeq(s, 1, Len(s) - 1))
  ELSE s

\* Optional values.
None == << >>
Some(x) == << x >>

(***************************************************************************)
(* tools/architecture/patterns_config.py: the declarative catalog.         *)
(* Weights and thresholds are in hundredths.                               *)
(***************************************************************************)


(***************************************************************************)
(* State.                                                                  *)
(***************************************************************************)

VARIABLES
  \* ArchitectureDetectorTool and the classifiers
  mode,              \* "idle", "execute" or "classify"
  directory_names,   \* input_data["directory_names"]
  file_names,        \* input_data["file_names"]
  file_structure,    \* the keys of input_data["file_structure"]
  report,            \* None, or the dict returned by execute
  pattern_list,      \* the pattern list handed to the classifiers
  classified,        \* None, or the labels the classifiers returned
  \* DependencyMapperTool._detect_circular_dependencies
  dependency_map,    \* the dict given to _detect_circular_dependencies
  dfsStatus,         \* "input", "running", "returned" or "raised"
  circular,          \* circular: the list of cycles found
  visited,           \* visited: set of nodes
  rec_stack,         \* rec_stack: set of nodes
  frames,            \* the active dfs calls, outermost first
  root,              \* position in dependency_map of the outer for loop
  \* DependencyMapperTool._extract_external_dependencies
  extStatus,         \* "idle", "input" or "called"
  mapper_language,   \* input_data["language"] of the dependency mapper
  mapper_files,      \* input_data["files"]: a list of {path, content}
  hashSeed,          \* per interpreter process: None, or its str hash order
  extCalls,          \* the calls made on the input: [process, result]
  \* Interleaved calls of ArchitectureDetectorTool.execute on one instance
  catalog,           \* the module-level list _GENERIC_PATTERNS
  callStatus,        \* per call: "idle", "running" or "done"
  callInput,         \* per call: its input_data
  frames_of,         \* per call frame: the local variables of execute
  callResult,        \* per call: None, or the dict it returned
  overlapped,        \* some call began while another was running
  \* CodeAnalyzerTool.execute
  codeStatus,        \* "idle", "typing" or "analyzed"
  source_lines,      \* the lines the source text is written from
  code,              \* input_data["code"]
  code_language,     \* input_data["language"]
  analysis,          \* None, or the outcome of execute: a dict or an exception
  \* DependencyMapperTool: metrics and recommendations
  recStatus,         \* "idle", "input" or "done"
  internal_deps,     \* the dict returned by _extract_internal_dependencies
  circular_deps,     \* the list returned by _detect_circular_dependencies
  external_count,    \* external_deps["total_count"]
  mapper_metrics,    \* None, or the dict of _calculate_dependency_metrics
  mapper_recommendations, \* the list of _get_dependency_recommendations
  \* QualityCheckerTool.execute
  qualityStatus,     \* "idle", "input" or "checked"
  quality_files,     \* input_data["files"]: a list of {path, content, language}
  quality_report,    \* None, or the dict returned by execute
  \* DocumentationAgent._run_agent_loop
  agentStatus,       \* "idle", "loop", "tools", "returned" or "raised"
  max_iterations,    \* the parameter max_iterations
  iteration,         \* iteration
  messages,          \* messages: the history
  tool_uses,         \* tool_uses: the tool_use blocks of the response
  tool_results,      \* tool_results: the results collected in this round
  tool_log,          \* what the logger wrote about tools
  agent_output       \* None, or the str the loop returned

archVars ==
  << mode, directory_names, file_names, file_structure, report, pattern_list, classified >>

dfsVars == << dependency_map, dfsStatus, circular, visited, rec_stack, frames, root >>

extVars == << extStatus, mapper_language, mapper_files, hashSeed, extCalls >>

concVars == << catalog, callStatus, callInput, frames_of, callResult, overlapped >>

codeVars == << codeStatus, source_lines, code, code_language, analysis >>

recVars ==
  << recStatus, internal_deps, circular_deps, external_count, mapper_metrics,
     mapper_recommendations >>

qualityVars == << qualityStatus, quality_files, quality_report >>

agentVars ==
  << agentStatus, max_iterations, iteration, messages, tool_uses, tool_results,
     tool_log, agent_output >>

vars ==
  << archVars, dfsVars, extVars, concVars, codeVars, recVars, qualityVars, agentVars >>

\* What the actions of one tool leave alone: the state of the other tools.
notArch == << dfsVars, extVars, concVars, codeVars, recVars, qualityVars,
             agentVars >>
notDfs  == << archVars, extVars, concVars, codeVars, recVars, qualityVars,
             agentVars >>
notExt  == << archVars, dfsVars, concVars, codeVars, recVars, qualityVars,
             agentVars >>
notConc == << archVars, dfsVars, extVars, codeVars, recVars, qualityVars,
             agentVars >>
notCode == << archVars, dfsVars, extVars, concVars, recVars, qualityVars,
             agentVars >>
notRec  == << archVars, dfsVars, extVars, concVars, codeVars, qualityVars,
             agentVars >>
notQuality == << archVars, dfsVars, extVars, concVars, codeVars, recVars, agentVars >>
notAgent == << archVars, dfsVars, extVars, concVars, codeVars, recVars, qualityVars >>
SIMPLE_MODULAR ==
  [ name |-> "Simple Modular Structure",
    description |-> "Estrutura modular simples e pragmatica (src, utils, lib)",
    dir_weights |-> <<
        [key |-> "src", weight |-> 30],
        [key |-> "utils", weight |-> 15],
        [key |-> "lib", weight |-> 15],
        [key |-> "helpers", weight |-> 10],
        [key |-> "config", weight |-> 10],
        [key |-> "common", weight |-> 10],
        [key |-> "shared", weight |-> 10],
        [key |-> "core", weight |-> 15] >>,
    file_keywords |-> <<  >>,
    min_dir_matches |-> 1,
    threshold |-> 30 ]

FEATURE_BASED ==
  [ name |-> "Feature-Based Architecture",
    description |-> "Organizacao por features/modulos funcionais",
    dir_weights |-> <<
        [key |-> "features", weight |-> 50],
        [key |-> "modules", weight |-> 50],
        [key |-> "packages", weight |-> 40],
        [key |-> "apps", weight |-> 40] >>,
    file_keywords |-> <<  >>,
    min_dir_matches |-> 1,
    threshold |-> 30 ]

BASIC_LAYERED ==
  [ name |-> "Basic Layered Architecture",
    description |-> "Separacao em camadas basicas (services, models, routes)",
    dir_weights |-> <<
        [key |-> "routes", weight |-> 20],
        [key |-> "api", weight |-> 20],
        [key |-> "services", weight |-> 25],
        [key |-> "models", weight |-> 20],
        [key |-> "database", weight |-> 15],
        [key |-> "db", weight |-> 15],
        [key |-> "middleware", weight |-> 10],
        [key |-> "validators", weight |-> 10],
        [key |-> "schemas", weight |-> 10] >>,
    file_keywords |-> << "service", "model", "route", "controller" >>,
    min_dir_matches |-> 2,
    threshold |-> 30 ]

FRONTEND_STANDARD ==
  [ name |-> "Frontend Standard Structure",
    description |-> "Estrutura padrao de projeto frontend",
    dir_weights |-> <<
        [key |-> "components", weight |-> 30],
        [key |-> "pages", weight |-> 25],
        [key |-> "views", weight |-> 25],
        [key |-> "hooks", weight |-> 15],
        [key |-> "styles", weight |-> 10],
        [key |-> "assets", weight |-> 10],
        [key |-> "public", weight |-> 10],
        [key |-> "static", weight |-> 10],
        [key |-> "store", weight |-> 15],
        [key |-> "redux", weight |-> 15],
        [key |-> "context", weight |-> 10] >>,
    file_keywords |-> << ".jsx", ".tsx", ".vue", ".svelte", "component", ".css", ".scss", ".sass" >>,
    min_dir_matches |-> 1,
    threshold |-> 30 ]

BACKEND_STANDARD ==
  [ name |-> "Backend Standard Structure",
    description |-> "Estrutura padrao de projeto backend",
    dir_weights |-> <<
        [key |-> "controllers", weight |-> 25],
        [key |-> "routes", weight |-> 25],
        [key |-> "api", weight |-> 20],
        [key |-> "models", weight |-> 20],
        [key |-> "middleware", weight |-> 15],
        [key |-> "database", weight |-> 15],
        [key |-> "migrations", weight |-> 10],
        [key |-> "seeders", weight |-> 5],
        [key |-> "validators", weight |-> 10],
        [key |-> "auth", weight |-> 10] >>,
    file_keywords |-> << "server", "app.py", "main.py", "index.js", "app.js" >>,
    min_dir_matches |-> 2,
    threshold |-> 30 ]

MVC ==
  [ name |-> "MVC (Model-View-Controller)",
    description |-> "Separacao clara entre Model, View e Controller",
    dir_weights |-> <<
        [key |-> "models", weight |-> 20],
        [key |-> "views", weight |-> 20],
        [key |-> "controllers", weight |-> 20],
        [key |-> "model", weight |-> 20],
        [key |-> "view", weight |-> 20],
        [key |-> "controller", weight |-> 20] >>,
    file_keywords |-> << "controller", "model", "view" >>,
    min_dir_matches |-> 2,
    threshold |-> 30 ]

CLEAN_ARCHITECTURE ==
  [ name |-> "Clean Architecture",
    description |-> "Camadas com dependencias unidirecionais",
    dir_weights |-> <<
        [key |-> "domain", weight |-> 25],
        [key |-> "application", weight |-> 25],
        [key |-> "infrastructure", weight |-> 25],
        [key |-> "presentation", weight |-> 15],
        [key |-> "entities", weight |-> 20],
        [key |-> "usecases", weight |-> 25],
        [key |-> "use_cases", weight |-> 25] >>,
    file_keywords |-> << "interface", "port", "adapter", "gateway", "boundary" >>,
    min_dir_matches |-> 3,
    threshold |-> 30 ]

DDD ==
  [ name |-> "Domain-Driven Design (DDD)",
    description |-> "Organizacao por dominios de negocio",
    dir_weights |-> <<
        [key |-> "domain", weight |-> 30],
        [key |-> "entities", weight |-> 20],
        [key |-> "valueobjects", weight |-> 20],
        [key |-> "value_objects", weight |-> 20],
        [key |-> "aggregates", weight |-> 20],
        [key |-> "repositories", weight |-> 10],
        [key |-> "services", weight |-> 10],
        [key |-> "factories", weight |-> 10] >>,
    file_keywords |-> << "entity", "valueobject", "aggregate", "domainservice", "specification" >>,
    min_dir_matches |-> 3,
    threshold |-> 30 ]

HEXAGONAL ==
  [ name |-> "Hexagonal Architecture (Ports & Adapters)",
    description |-> "Arquitetura de portas e adaptadores",
    dir_weights |-> <<
        [key |-> "ports", weight |-> 40],
        [key |-> "adapters", weight |-> 40],
        [key |-> "inbound", weight |-> 20],
        [key |-> "outbound", weight |-> 20],
        [key |-> "primary", weight |-> 20],
        [key |-> "secondary", weight |-> 20] >>,
    file_keywords |-> << "port", "adapter", "inbound", "outbound" >>,
    min_dir_matches |-> 2,
    threshold |-> 30 ]

MICROSERVICES ==
  [ name |-> "Microservices",
    description |-> "Servicos independentes e desacoplados",
    dir_weights |-> <<
         >>,
    file_keywords |-> <<  >>,
    min_dir_matches |-> 1,
    threshold |-> 30 ]

REPOSITORY_PATTERN ==
  [ name |-> "Repository Pattern",
    description |-> "Abstracao da camada de dados",
    dir_weights |-> <<
         >>,
    file_keywords |-> << "repository", "irepository", "repository_interface", "repositoryinterface", "base_repository" >>,
    min_dir_matches |-> 1,
    threshold |-> 30 ]

EVENT_DRIVEN ==
  [ name |-> "Event-Driven Architecture",
    description |-> "Comunicacao via eventos assincronos",
    dir_weights |-> <<
         >>,
    file_keywords |-> << "event", "handler", "listener", "subscriber", "publisher", "consumer" >>,
    min_dir_matches |-> 1,
    threshold |-> 30 ]

MONOREPO ==
  [ name |-> "Monorepo Structure",
    description |-> "Multiplos projetos em um unico repositorio",
    dir_weights |-> <<
        [key |-> "packages", weight |-> 50],
        [key |-> "apps", weight |-> 50],
        [key |-> "libs", weight |-> 40],
        [key |-> "services", weight |-> 30],
        [key |-> "projects", weight |-> 30] >>,
    file_keywords |-> <<  >>,
    min_dir_matches |-> 1,
    threshold |-> 30 ]

PATTERN_RECOMMENDATIONS ==
  << [keyword |-> "Simple Modular",
      recs |-> << "[ok] Estrutura simples e pragmatica. Considere adicionar camadas conforme o projeto cresce." >>],
     [keyword |-> "Repository",
      recs |-> << "[ok] Repository Pattern detectado. Considere adicionar Unit of Work se ainda nao houver." >>],
     [keyword |-> "DDD",
      recs |-> << "[ok] DDD detectado. Garanta que bounded contexts estejam bem definidos.",
                  "[ok] Considere usar Value Objects para conceitos de dominio imutaveis." >>],
     [keyword |-> "Clean Architecture",
      recs |-> << "[ok] Clean Architecture bem estruturada. Mantenha dependencias apontando para o dominio." >>],
     [keyword |-> "Microservices",
      recs |-> << "[ok] Arquitetura de microservicos. Garanta observabilidade e resiliencia.",
                  "[ok] Considere implementar circuit breakers e service mesh." >>],
     [keyword |-> "Frontend Standard",
      recs |-> << "[ok] Estrutura frontend organizada. Considere adicionar state management se necessario." >>],
     [keyword |-> "Backend Standard",
      recs |-> << "[ok] Backend estruturado. Considere adicionar validacao e tratamento de erros robusto." >>],
     [keyword |-> "Feature-Based",
      recs |-> << "[ok] Organizacao por features facilita escalabilidade. Evite dependencias circulares entre features." >>],
     [keyword |-> "Event-Driven",
      recs |-> << "[ok] Arquitetura event-driven. Implemente idempotencia nos handlers de eventos.",
                  "[ok] Considere dead letter queues para eventos com falha." >>] >>

FRAMEWORK_INDICATORS ==
  << [category |-> "frontend",
      frameworks |-> << [name |-> "Next.js", indicators |-> << "next.config", "next-env" >>],
          [name |-> "Nuxt.js", indicators |-> << "nuxt.config" >>],
          [name |-> "Vue.js", indicators |-> << "vue.config", ".vue" >>],
          [name |-> "Angular", indicators |-> << "angular.json" >>],
          [name |-> "React", indicators |-> << ".jsx", ".tsx" >>],
          [name |-> "Svelte", indicators |-> << "svelte.config" >>] >>],
     [category |-> "backend",
      frameworks |-> << [name |-> "Express.js", indicators |-> << "express" >>],
          [name |-> "FastAPI", indicators |-> << "fastapi" >>],
          [name |-> "Django", indicators |-> << "django", "manage.py" >>],
          [name |-> "Flask", indicators |-> << "flask" >>],
          [name |-> "NestJS", indicators |-> << "nestjs", "nest-cli" >>],
          [name |-> "Spring Boot", indicators |-> << "spring", "application.properties" >>] >>],
     [category |-> "database",
      frameworks |-> << [name |-> "Prisma", indicators |-> << "prisma" >>],
          [name |-> "TypeORM", indicators |-> << "typeorm" >>],
          [name |-> "Sequelize", indicators |-> << "sequelize" >>],
          [name |-> "Mongoose", indicators |-> << "mongoose" >>],
          [name |-> "SQLAlchemy", indicators |-> << "sqlalchemy" >>] >>],
     [category |-> "testing",
      frameworks |-> << [name |-> "Jest", indicators |-> << "jest.config", "jest" >>],
          [name |-> "Pytest", indicators |-> << "pytest", "pytest.ini" >>],
          [name |-> "Vitest", indicators |-> << "vitest" >>],
          [name |-> "Cypress", indicators |-> << "cypress" >>] >>],
     [category |-> "deployment",
      frameworks |-> << [name |-> "Docker", indicators |-> << "docker" >>],
          [name |-> "Kubernetes", indicators |-> << "kubernetes", "k8s" >>],
          [name |-> "Terraform", indicators |-> << "terraform" >>],
          [name |-> "Vercel", indicators |-> << "vercel.json" >>],
          [name |-> "Netlify", indicators |-> << "netlify" >>] >>] >>

(***************************************************************************)
(* tools/architecture/detector.py                                          *)
(***************************************************************************)

\* MIN_CONFIDENCE = 0.3, in hundredths.
MIN_CONFIDENCE == 30

\* The patterns that use the generic logic, in the order of the source.
GENERIC_PATTERNS ==
  << SIMPLE_MODULAR, FEATURE_BASED, BASIC_LAYERED, FRONTEND_STANDARD,
     BACKEND_STANDARD, MVC, CLEAN_ARCHITECTURE, DDD, HEXAGONAL, MONOREPO >>

\* DetectedPattern(pattern, confidence, evidence, description)
DetectedPattern(pattern, confidence, evidence, description) ==
  [ pattern |-> pattern, confidence |-> confidence,
    evidence |-> evidence, description |-> description ]

\* A detector that reports the raw score: the cap of 1.0 left out.
RawConfidence(confidence) == confidence

\* The confidence reported for a raw score: min(confidence, 1.0).
CapConfidence(confidence) == Min(confidence, 100)

\* matched_dirs of _detect_generic: the configured keys that are a substring
\* of some directory name, in the order of cfg.dir_weights.
MatchedDirs(cfg, dirs_lower) ==
  LET Matches(e) == \E d \in Range(dirs_lower) : Contains(e.key, d)
  IN  SelectSeq(cfg.dir_weights, Matches)

\* matched_files of _detect_generic: the file names that contain one of the
\* configured file keywords.
MatchedFiles(cfg, files_lower) ==
  LET Matches(f) == \E kw \in Range(cfg.file_keywords) : Contains(kw, f)
  IN  Len(SelectSeq(files_lower, Matches))

\* A bonus that is the full 0.2 as soon as one file matches.
FlatBonus(matched_files) == IF matched_files > 0 THEN 20 ELSE 0

\* A bonus that shrinks by 0.05 with every matching file.
ShrinkingBonus(matched_files) == 20 - Min(matched_files * 5, 20)

\* The bonus for matched_files matching files: min(matched_files * 0.05, 0.2).
FileBonus(matched_files) == Min(matched_files * 5, 20)

\* _detect_generic(cfg, dirs_lower, files_lower) -> DetectedPattern | None
DetectGeneric(cfg, dirs_lower, files_lower) ==
  LET matched_dirs  == MatchedDirs(cfg, dirs_lower)
      keys          == [i \in 1..Len(matched_dirs) |-> matched_dirs[i].key]
      dir_score     == SumSeq([i \in 1..Len(matched_dirs) |-> matched_dirs[i].weight])
      matched_files == IF Len(cfg.file_keywords) > 0
                       THEN MatchedFiles(cfg, files_lower) ELSE 0
      confidence    == dir_score + FileBonus(matched_files)
      evidence      == << "Diretorios: " \o Join(", ", keys) >>
                       \o (IF matched_files > 0
                           THEN << "Arquivos correspondentes: " \o ToString(matched_files) >>
                           ELSE << >>)
  IN  IF Len(matched_dirs) < cfg.min_dir_matches THEN None
      ELSE IF confidence < cfg.threshold THEN None
      ELSE Some(DetectedPattern(cfg.name, CapConfidence(confidence),
                                evidence, cfg.description))

\* _detect_repository(files_lower, struct_str)
DetectRepository(files_lower, struct_str) ==
  LET IsRepo(f) == Contains("repository", f)
      repo_files == SelectSeq(files_lower, IsRepo)
      IsInterface(f) ==
        \E p \in {"irepository", "repository_interface",
                  "repositoryinterface", "base_repository"} : Contains(p, f)
      interface_files == SelectSeq(files_lower, IsInterface)
      confidence ==
          40 + (IF Len(repo_files) >= 3 THEN 20 ELSE 0)
        + (IF Len(interface_files) > 0 THEN 30 ELSE 0)
        + (IF Contains("repositor", struct_str) THEN 10 ELSE 0)
      evidence ==
           << ToString(Len(repo_files)) \o " repositor"
              \o (IF Len(repo_files) > 1 THEN "ies" ELSE "y") \o " encontrado(s)" >>
        \o (IF Len(interface_files) > 0
            THEN << "Interfaces/abstracoes de repository encontradas" >> ELSE << >>)
        \o (IF Contains("repositor", struct_str)
            THEN << "Diretorio repositories organizado" >> ELSE << >>)
  IN  IF Len(repo_files) = 0 THEN None
      ELSE IF confidence >= MIN_CONFIDENCE
      THEN Some(DetectedPattern(REPOSITORY_PATTERN.name, CapConfidence(confidence),
                                evidence, REPOSITORY_PATTERN.description))
      ELSE None

\* service_dirs of _detect_microservices: the directories whose name contains
\* "service" (a list, so a name given twice counts twice).
ServiceDirCount(dirs_lower) ==
  LET IsService(d) == Contains("service", d)
  IN  Len(SelectSeq(dirs_lower, IsService))

\* _detect_microservices(dirs_lower, struct_str)
DetectMicroservices(dirs_lower, struct_str) ==
  LET count == ServiceDirCount(dirs_lower)
      has_containers ==
        \E tool \in {"docker-compose", "dockerfile", "kubernetes", "k8s",
                     ".dockerignore"} : Contains(tool, struct_str)
      has_gateway ==
        \E d \in Range(dirs_lower) : \E kw \in {"gateway", "proxy"} : Contains(kw, d)
      confidence ==
          (IF count >= 2 THEN 30 + (IF count >= 3 THEN 20 ELSE 0) ELSE 0)
        + (IF has_containers THEN 30 ELSE 0)
        + (IF has_gateway THEN 20 ELSE 0)
      evidence ==
           (IF count >= 2 THEN << ToString(count) \o " servicos identificados" >>
            ELSE << >>)
        \o (IF has_containers
            THEN << "Configuracoes de containerizacao encontradas" >> ELSE << >>)
        \o (IF has_gateway THEN << "API Gateway/Proxy detectado" >> ELSE << >>)
  IN  IF confidence >= MIN_CONFIDENCE
      THEN Some(DetectedPattern(MICROSERVICES.name, CapConfidence(confidence),
                                evidence, MICROSERVICES.description))
      ELSE None

\* _detect_event_driven(files_lower, struct_str)
DetectEventDriven(files_lower, struct_str) ==
  LET IsEvent(f) == \E kw \in Range(EVENT_DRIVEN.file_keywords) : Contains(kw, f)
      event_files == SelectSeq(files_lower, IsEvent)
      brokers == << "kafka", "rabbitmq", "redis", "pubsub", "queue",
                    "eventbus", "messagebus" >>
      IsFound(b) == Contains(b, struct_str)
      found_brokers == SelectSeq(brokers, IsFound)
      confidence ==
          30 + (IF Len(event_files) >= 3 THEN 20 ELSE 0)
        + (IF Len(found_brokers) > 0 THEN 30 ELSE 0)
        + (IF Contains("event", struct_str) THEN 20 ELSE 0)
      evidence ==
           << ToString(Len(event_files)) \o " componente(s) de eventos encontrados" >>
        \o (IF Len(found_brokers) > 0
            THEN << "Message brokers: " \o Join(", ", found_brokers) >> ELSE << >>)
        \o (IF Contains("event", struct_str)
            THEN << "Estrutura organizada por eventos" >> ELSE << >>)
  IN  IF Len(event_files) = 0 THEN None
      ELSE IF confidence >= MIN_CONFIDENCE
      THEN Some(DetectedPattern(EVENT_DRIVEN.name, CapConfidence(confidence),
                                evidence, EVENT_DRIVEN.description))
      ELSE None

\* _detect_frameworks(files_lower, struct_str): the categories with at least
\* one detected framework, each with its detected framework names.
DetectFrameworks(files_lower, struct_str) ==
  LET combined == struct_str \o " " \o Join(" ", files_lower)
      IsDetected(fw) == \E ind \in Range(fw.indicators) : Contains(ind, combined)
      Detected(cat) ==
        LET hit == SelectSeq(cat.frameworks, IsDetected)
        IN  [ category |-> cat.category,
              detected |-> [i \in 1..Len(hit) |-> hit[i].name] ]
      all == [i \in 1..Len(FRAMEWORK_INDICATORS) |-> Detected(FRAMEWORK_INDICATORS[i])]
      NonEmpty(c) == Len(c.detected) > 0
  IN  SelectSeq(all, NonEmpty)

RECURSIVE InsertByConfidence(_, _)
\* Insert p into a list sorted by non-increasing confidence, after every
\* element whose confidence is not smaller (list.sort is stable, also with
\* reverse=True).
InsertByConfidence(sorted, p) ==
  IF Len(sorted) = 0 THEN << p >>
  ELSE IF Head(sorted).confidence >= p.confidence
       THEN << Head(sorted) >> \o InsertByConfidence(Tail(sorted), p)
       ELSE << p >> \o sorted

\* A detector that leaves the patterns in the order of detection.
DetectionOrder(patterns) == patterns

RECURSIVE SortByConfidence(_)
\* patterns.sort(key=lambda p: p.confidence, reverse=True)
SortByConfidence(patterns) ==
  IF Len(patterns) = 0 THEN << >>
  ELSE InsertByConfidence(SortByConfidence(SubSeq(patterns, 1, Len(patterns) - 1)),
                          patterns[Len(patterns)])

(***************************************************************************)
(* tools/architecture/classifiers.py                                       *)
(***************************************************************************)

ARCHITECTURE_TYPES ==
  << [keyword |-> "Microservices",     label |-> "Distributed Architecture"],
     [keyword |-> "Monorepo",          label |-> "Monorepo Multi-Project"],
     [keyword |-> "Event-Driven",      label |-> "Event-Driven / Reactive Architecture"],
     [keyword |-> "MVC",               label |-> "Traditional MVC Architecture"],
     [keyword |-> "Feature-Based",     label |-> "Feature-Based Modular Architecture"],
     [keyword |-> "Frontend Standard", label |-> "Frontend Application Structure"],
     [keyword |-> "Backend Standard",  label |-> "Backend API Structure"],
     [keyword |-> "Simple Modular",    label |-> "Simple Modular Structure"] >>

DOMAIN_CENTRIC == {"Clean Architecture", "Hexagonal Architecture", "Domain-Driven Design"}

COMPLEX_PATTERNS == {"Clean Architecture", "DDD", "Hexagonal", "Microservices", "Event-Driven"}

SIMPLE_PATTERNS == {"Simple Modular", "Basic Layered", "Frontend Standard", "Backend Standard"}

\* A classifier that looks for a domain-centric name in the primary only.
PrimaryIsDomainCentric(patterns) ==
  \E dc \in DOMAIN_CENTRIC : Contains(dc, patterns[1].pattern)

\* any(dc in p.pattern for p in patterns for dc in _DOMAIN_CENTRIC)
HasDomainCentric(patterns) ==
  \E p \in Range(patterns) : \E dc \in DOMAIN_CENTRIC : Contains(dc, p.pattern)

\* The label of the first keyword of _ARCHITECTURE_TYPES contained in the
\* primary pattern's name, or None.
PrimaryLabel(primary) ==
  LET Hit(e) == Contains(e.keyword, primary)
      hits == SelectSeq(ARCHITECTURE_TYPES, Hit)
  IN  IF Len(hits) > 0 THEN Some(hits[1].label) ELSE None

\* A classifier that looks for a layered pattern before it looks at the
\* primary's keywords.
ClassifyLayeredFirst(patterns) ==
  IF Len(patterns) = 0 THEN "Arquitetura nao identificada"
  ELSE IF HasDomainCentric(patterns) THEN "Domain-Centric Architecture"
  ELSE IF \E p \in Range(patterns) : Contains("Layered", p.pattern)
       THEN "Layered Architecture"
  ELSE IF PrimaryLabel(patterns[1].pattern) # None
       THEN PrimaryLabel(patterns[1].pattern)[1]
  ELSE "Custom/Mixed Architecture"

\* classify_architecture_type(patterns)
classify_architecture_type(patterns) ==
  IF Len(patterns) = 0 THEN "Arquitetura nao identificada"
  ELSE IF HasDomainCentric(patterns) THEN "Domain-Centric Architecture"
  ELSE IF PrimaryLabel(patterns[1].pattern) # None
       THEN PrimaryLabel(patterns[1].pattern)[1]
  ELSE IF \E p \in Range(patterns) : Contains("Layered", p.pattern)
       THEN "Layered Architecture"
  ELSE "Custom/Mixed Architecture"

\* An assessment that looks for a complex keyword in the primary pattern only.
AssessByPrimary(patterns) ==
  IF Len(patterns) = 0 THEN "Unknown"
  ELSE
    LET primary == patterns[1]
        has_complex == \E cp \in COMPLEX_PATTERNS : Contains(cp, primary.pattern)
        is_simple == \E sp \in SIMPLE_PATTERNS : Contains(sp, primary.pattern)
    IN  IF has_complex /\ primary.confidence > 70 THEN "High (Enterprise-level)"
        ELSE IF has_complex \/ Len(patterns) >= 4 THEN "Medium-High (Structured)"
        ELSE IF Len(patterns) >= 2 /\ primary.confidence > 60 THEN "Medium (Organized)"
        ELSE IF is_simple THEN "Low-Medium (Simple & Pragmatic)"
        ELSE "Low (Basic)"

\* assess_complexity(patterns)
assess_complexity(patterns) ==
  IF Len(patterns) = 0 THEN "Unknown"
  ELSE
    LET primary == patterns[1]
        has_complex ==
          \E p \in Range(patterns) : \E cp \in COMPLEX_PATTERNS : Contains(cp, p.pattern)
        is_simple == \E sp \in SIMPLE_PATTERNS : Contains(sp, primary.pattern)
    IN  IF has_complex /\ primary.confidence > 70 THEN "High (Enterprise-level)"
        ELSE IF has_complex \/ Len(patterns) >= 4 THEN "Medium-High (Structured)"
        ELSE IF Len(patterns) >= 2 /\ primary.confidence > 60 THEN "Medium (Organized)"
        ELSE IF is_simple THEN "Low-Medium (Simple & Pragmatic)"
        ELSE "Low (Basic)"

(***************************************************************************)
(* tools/architecture/detector.py: recommendations and execute.            *)
(***************************************************************************)

RECURSIVE Dedup(_)
\* list(dict.fromkeys(xs)): the first occurrence of every element, in order.
Dedup(xs) ==
  IF Len(xs) = 0 THEN << >>
  ELSE LET init == Dedup(SubSeq(xs, 1, Len(xs) - 1))
           last == xs[Len(xs)]
       IN  IF last \in Range(init) THEN init ELSE Append(init, last)

\* A detector that has nothing to recommend when no pattern is detected.
NoRecommendations == << >>

\* The recommendations of _build_recommendations when no pattern is detected.
NoPatternRecommendations ==
  << "[ok] Considere adotar um padrao arquitetural claro para facilitar manutencao",
     "[ok] Organize o codigo em diretorios como src/, utils/, config/" >>

RECURSIVE PatternSpecific(_, _)
\* for keyword, recs in PATTERN_RECOMMENDATIONS.items():
\*     if any(keyword in p.pattern for p in patterns): recommendations.extend(recs)
PatternSpecific(table, patterns) ==
  IF Len(table) = 0 THEN << >>
  ELSE (IF \E p \in Range(patterns) : Contains(Head(table).keyword, p.pattern)
        THEN Head(table).recs ELSE << >>)
       \o PatternSpecific(Tail(table), patterns)

\* Recommendations made of the pattern-specific ones only.
BuildSpecificOnly(patterns) ==
  IF Len(patterns) = 0 THEN NoPatternRecommendations
  ELSE
    LET unique == Dedup(PatternSpecific(PATTERN_RECOMMENDATIONS, patterns))
    IN  IF Len(unique) > 0 THEN unique ELSE << "[ok] Arquitetura bem estruturada" >>

\* _build_recommendations(patterns)
BuildRecommendations(patterns) ==
  IF Len(patterns) = 0 THEN NoPatternRecommendations
  ELSE
    LET primary == patterns[1]
        on_confidence ==
          IF primary.confidence < 50
          THEN << "[!] Padrao '" \o primary.pattern \o "' com confianca moderada ("
                  \o ToString(primary.confidence) \o "%). Considere reforcar a estrutura." >>
          ELSE IF primary.confidence >= 80
          THEN << "[ok] Arquitetura bem definida (" \o primary.pattern \o ")" >>
          ELSE << >>
        on_count ==
          IF Len(patterns) > 4
          THEN << "[!] Multiplos padroes detectados. Considere consolidar para evitar complexidade." >>
          ELSE << >>
        on_tests ==
          IF ~ \E p \in Range(patterns) : Contains("test", Lower(p.pattern))
          THEN << "[!] Considere adicionar diretorio de testes (tests/, __tests__/)" >>
          ELSE << >>
        recommendations ==
          on_confidence \o on_count
          \o PatternSpecific(PATTERN_RECOMMENDATIONS, patterns) \o on_tests
        unique == Dedup(recommendations)
    IN  IF Len(unique) > 0 THEN unique ELSE << "[ok] Arquitetura bem estruturada" >>

RECURSIVE GenericLoop(_, _, _)
\* for cfg in _GENERIC_PATTERNS: result = _detect_generic(...); if result: append
GenericLoop(cfgs, dirs_lower, files_lower) ==
  IF Len(cfgs) = 0 THEN << >>
  ELSE DetectGeneric(Head(cfgs), dirs_lower, files_lower)
       \o GenericLoop(Tail(cfgs), dirs_lower, files_lower)

\* struct_str = " ".join(str(k).lower() for k in file_structure)
StructStr(structure) == Join(" ", LowerAll(structure))

\* The patterns list of execute before it is sorted: the generic patterns in
\* catalog order, then repository, microservices, event-driven.
CollectPatterns(dirs_lower, files_lower, struct_str) ==
     GenericLoop(GENERIC_PATTERNS, dirs_lower, files_lower)
  \o DetectRepository(files_lower, struct_str)
  \o DetectMicroservices(dirs_lower, struct_str)
  \o DetectEventDriven(files_lower, struct_str)

\* ArchitectureReport(...).to_dict() for a sorted pattern list.
ArchitectureReport(sorted, files_lower, struct_str) ==
  [ detected_patterns  |-> sorted,
    primary_pattern    |-> IF Len(sorted) > 0 THEN Some(sorted[1]) ELSE None,
    secondary_patterns |-> IF Len(sorted) > 1
                           THEN SubSeq(sorted, 2, Min(4, Len(sorted))) ELSE << >>,
    architecture_type  |-> classify_architecture_type(sorted),
    complexity_level   |-> assess_complexity(sorted),
    framework_hints    |-> DetectFrameworks(files_lower, struct_str),
    recommendations    |-> BuildRecommendations(sorted) ]

\* ArchitectureDetectorTool.execute(input_data)
ArchExecute(dirs, files, structure) ==
  LET dirs_lower  == LowerAll(dirs)
      files_lower == LowerAll(files)
      struct_str  == StructStr(structure)
      sorted      == SortByConfidence(CollectPatterns(dirs_lower, files_lower, struct_str))
  IN  ArchitectureReport(sorted, files_lower, struct_str)

(***************************************************************************)
(* The detector as a state machine.  In mode "execute" the caller          *)
(* assembles an input from directory names, file names and structure keys  *)
(* and calls execute.  In mode "classify" the caller hands a list of       *)
(* detected patterns, ordered as execute orders it, to the two classifiers *)
(* of classifiers.py, as the unit tests of the classifiers do.             *)
(***************************************************************************)

\* Bound on the number of directory names of one input.
MaxDirs == 3

\* Bound on the length of a pattern list handed to the classifiers.
MaxPatterns == 2

DirVocabulary ==
  { "models", "views", "controllers", "domain", "application",
    "infrastructure", "User_Service" }

FileLists ==
  { << >>,
    << "UserRepository.py", "base_repository.py", "order_repository.py" >>,
    << "event_handler.py", "user_model.py" >> }

StructureKeyLists ==
  { << >>, << "docker-compose.yml" >>, << "src/events/kafka.py", "repositories" >> }

\* The thirteen pattern configurations of the catalog.
ALL_PATTERNS == GENERIC_PATTERNS \o << REPOSITORY_PATTERN, MICROSERVICES, EVENT_DRIVEN >>

\* Confidences of the patterns handed to the classifiers, around the limits
\* 0.6 and 0.7 of assess_complexity.
ConfidenceLevels == {60, 70, 80}

\* len(patterns) >= 4 of assess_complexity: the length of a list of many
\* patterns.
ManyPatterns == 4

\* The confidence 0.5 of the patterns of test_many_patterns_medium_high.
UnknownConfidence == 50

\* The caller starts assembling an input for execute.
BeginExecute ==
  /\ mode = "idle"
  /\ mode' = "execute"
  /\ file_names' \in FileLists
  /\ file_structure' \in StructureKeyLists
  /\ UNCHANGED << directory_names, report, pattern_list, classified, notArch >>

\* The caller starts assembling a pattern list for the classifiers.
BeginClassify ==
  /\ mode = "idle"
  /\ mode' = "classify"
  /\ UNCHANGED << directory_names, file_names, file_structure, report,
                  pattern_list, classified, notArch >>

AddDirectory ==
  /\ mode = "execute" /\ report = None
  /\ Len(directory_names) < MaxDirs
  /\ \E d \in DirVocabulary : directory_names' = Append(directory_names, d)
  /\ UNCHANGED << mode, file_names, file_structure, report, pattern_list, classified, notArch >>

Execute ==
  /\ mode = "execute" /\ report = None
  /\ report' = Some(ArchExecute(directory_names, file_names, file_structure))
  /\ UNCHANGED << mode, directory_names, file_names, file_structure, pattern_list,
                  classified, notArch >>

AddPattern ==
  /\ mode = "classify" /\ classified = None
  /\ Len(pattern_list) < MaxPatterns
  /\ \E cfg \in Range(ALL_PATTERNS), c \in ConfidenceLevels :
       /\ Len(pattern_list) > 0 => pattern_list[Len(pattern_list)].confidence >= c
       /\ pattern_list' = Append(pattern_list, DetectedPattern(cfg.name, c, << >>, cfg.description))
  /\ UNCHANGED << mode, directory_names, file_names, file_structure, report,
                  classified, notArch >>

\* The caller appends a pattern with a name outside the catalog, as
\* test_many_patterns_medium_high does: "Pattern i" with confidence 0.5,
\* until the list has the four patterns assess_complexity asks for.
AddUnknownPattern ==
  /\ mode = "classify" /\ classified = None
  /\ Len(pattern_list) < ManyPatterns
  /\ pattern_list' = Append(pattern_list,
        DetectedPattern("Pattern " \o ToString(Len(pattern_list)), UnknownConfidence,
                        << "evidencia de teste" >>, "descricao de teste"))
  /\ UNCHANGED << mode, directory_names, file_names, file_structure, report,
                  classified, notArch >>

Classify ==
  /\ mode = "classify" /\ classified = None
  /\ classified' = Some([ architecture_type |-> classify_architecture_type(pattern_list),
                          complexity_level  |-> assess_complexity(pattern_list) ])
  /\ UNCHANGED << mode, directory_names, file_names, file_structure, report,
                  pattern_list, notArch >>

ArchNext ==
  \/ BeginExecute \/ AddDirectory \/ Execute
  \/ BeginClassify \/ AddPattern \/ AddUnknownPattern \/ Classify

(***************************************************************************)
(* tools/dependency_mapper.py: _detect_circular_dependencies.              *)
(*                                                                         *)
(* The internal dependency map is a dict from a file path to the list of   *)
(* its internal imports: a sequence of entries [path, imports] in          *)
(* insertion order, with unique paths.  The recursion of dfs is modelled   *)
(* by an explicit stack of frames [node, path, next], where next is the    *)
(* position of the neighbour the frame's for loop examines next.           *)
(***************************************************************************)

\* Bound on the total number of imports (edges) of one dependency map.
MaxEdges == 4

\* File paths and import targets (the test fixtures name a file by the name
\* its importers use, so a path can be an import target).
Modules == {"module_a", "module_b", "module_c"}

RECURSIVE SeqsOfLen(_, _)
SeqsOfLen(S, n) ==
  IF n = 0 THEN { << >> }
  ELSE { Append(s, x) : s \in SeqsOfLen(S, n - 1), x \in S }

\* The non-empty import lists of at most n targets.
ImportLists(n) == UNION { SeqsOfLen(Modules, k) : k \in 1..n }

\* The keys of the dict.
Keys(map) == {map[i].path : i \in 1..Len(map)}

\* dependency_map.get(node, [])
Neighbors(map, node) ==
  IF node \in Keys(map)
  THEN (CHOOSE e \in Range(map) : e.path = node).imports
  ELSE << >>

\* sum(len(deps) for deps in dependency_map.values())
EdgeCount(map) == SumSeq([i \in 1..Len(map) |-> Len(map[i].imports)])

\* path.index(x), 1-based, for x in path.
IndexOf(path, x) == CHOOSE i \in 1..Len(path) : path[i] = x /\ \A j \in 1..(i - 1) : path[j] # x

\* A cycle cut at the DFS root instead of at the repeated node.
CycleFromRoot(path, neighbor) == Append(path, neighbor)

\* cycle = path[cycle_start:] + [neighbor]
CycleOf(path, neighbor) ==
  SubSeq(path, IndexOf(path, neighbor), Len(path)) \o << neighbor >>

\* if cycle not in circular: circular.append(cycle)
RecordCycle(cycles, cycle) ==
  IF cycle \in Range(cycles) THEN cycles ELSE Append(cycles, cycle)

\* The frame of a call dfs(node, path): path.append(node) has been done.
Frame(node, path) == [node |-> node, path |-> Append(path, node), next |-> 1]

\* What rec_stack holds after the for loop of dfs(node) ends without a
\* cycle: rec_stack.remove(node).
AfterReturnFalse(stack, node) == stack \ {node}

\* What rec_stack holds after dfs returns True: the early returns skip
\* rec_stack.remove, in the call that found the cycle and in its callers.
AfterReturnTrue(stack, active) == stack

\* The caller adds one file and its internal imports to the map.
AddModule ==
  /\ dfsStatus = "input"
  /\ \E p \in Modules \ Keys(dependency_map) :
       \E imports \in ImportLists(MaxEdges - EdgeCount(dependency_map)) :
         dependency_map' = Append(dependency_map, [path |-> p, imports |-> imports])
  /\ UNCHANGED << dfsStatus, circular, visited, rec_stack, frames, root, notDfs >>

\* _detect_circular_dependencies(dependency_map) is called.
Detect ==
  /\ dfsStatus = "input"
  /\ dfsStatus' = "running"
  /\ UNCHANGED << dependency_map, circular, visited, rec_stack, frames, root, notDfs >>

\* for node in dependency_map: if node not in visited: dfs(node, [])
StartRoot ==
  /\ dfsStatus = "running" /\ frames = << >> /\ root <= Len(dependency_map)
  /\ dependency_map[root].path \notin visited
  /\ LET node == dependency_map[root].path
     IN  /\ visited' = visited \cup {node}
         /\ rec_stack' = rec_stack \cup {node}
         /\ frames' = << Frame(node, << >>) >>
  /\ root' = root + 1
  /\ UNCHANGED << dependency_map, dfsStatus, circular, notDfs >>

\* for node in dependency_map: the node is already visited.
SkipRoot ==
  /\ dfsStatus = "running" /\ frames = << >> /\ root <= Len(dependency_map)
  /\ dependency_map[root].path \in visited
  /\ root' = root + 1
  /\ UNCHANGED << dependency_map, dfsStatus, circular, visited, rec_stack, frames, notDfs >>

\* return circular
ReturnCircular ==
  /\ dfsStatus = "running" /\ frames = << >> /\ root > Len(dependency_map)
  /\ dfsStatus' = "returned"
  /\ UNCHANGED << dependency_map, circular, visited, rec_stack, frames, root, notDfs >>

\* The innermost active call and the neighbour its loop looks at.
Top == frames[Len(frames)]
TopNeighbors == Neighbors(dependency_map, Top.node)
Advance(fs) == [fs EXCEPT ![Len(fs)].next = @ + 1]

\* if neighbor not in visited: dfs(neighbor, path.copy())
Descend ==
  /\ dfsStatus = "running" /\ frames # << >> /\ Top.next <= Len(TopNeighbors)
  /\ LET neighbor == TopNeighbors[Top.next]
     IN  /\ neighbor \notin visited
         /\ visited' = visited \cup {neighbor}
         /\ rec_stack' = rec_stack \cup {neighbor}
         /\ frames' = Append(Advance(frames), Frame(neighbor, Top.path))
  /\ UNCHANGED << dependency_map, dfsStatus, circular, root, notDfs >>

\* The neighbour is visited and not on rec_stack: the loop goes on.
SkipNeighbor ==
  /\ dfsStatus = "running" /\ frames # << >> /\ Top.next <= Len(TopNeighbors)
  /\ LET neighbor == TopNeighbors[Top.next]
     IN  neighbor \in visited /\ neighbor \notin rec_stack
  /\ frames' = Advance(frames)
  /\ UNCHANGED << dependency_map, dfsStatus, circular, visited, rec_stack, root, notDfs >>

\* elif neighbor in rec_stack, and path.index(neighbor) finds it: the cycle
\* is recorded and True is returned through every active call.
FoundCycle ==
  /\ dfsStatus = "running" /\ frames # << >> /\ Top.next <= Len(TopNeighbors)
  /\ LET neighbor == TopNeighbors[Top.next]
     IN  /\ neighbor \in visited /\ neighbor \in rec_stack
         /\ neighbor \in Range(Top.path)
         /\ circular' = RecordCycle(circular, CycleOf(Top.path, neighbor))
  /\ rec_stack' = AfterReturnTrue(rec_stack, {frames[i].node : i \in 1..Len(frames)})
  /\ frames' = << >>
  /\ UNCHANGED << dependency_map, dfsStatus, visited, root, notDfs >>

\* elif neighbor in rec_stack, and path.index(neighbor) raises ValueError:
\* the exception leaves dfs and _detect_circular_dependencies.
RaiseValueError ==
  /\ dfsStatus = "running" /\ frames # << >> /\ Top.next <= Len(TopNeighbors)
  /\ LET neighbor == TopNeighbors[Top.next]
     IN  /\ neighbor \in visited /\ neighbor \in rec_stack
         /\ neighbor \notin Range(Top.path)
  /\ dfsStatus' = "raised"
  /\ frames' = << >>
  /\ UNCHANGED << dependency_map, circular, visited, rec_stack, root, notDfs >>

\* The for loop is over: rec_stack.remove(node); return False.
ReturnFalse ==
  /\ dfsStatus = "running" /\ frames # << >> /\ Top.next > Len(TopNeighbors)
  /\ rec_stack' = AfterReturnFalse(rec_stack, Top.node)
  /\ frames' = SubSeq(frames, 1, Len(frames) - 1)
  /\ UNCHANGED << dependency_map, dfsStatus, circular, visited, root, notDfs >>

DfsNext ==
  \/ AddModule \/ Detect \/ StartRoot \/ SkipRoot \/ ReturnCircular
  \/ Descend \/ SkipNeighbor \/ FoundCycle \/ RaiseValueError \/ ReturnFalse


(***************************************************************************)
(* The dependency dict as a directed graph.                                *)
(***************************************************************************)

\* The dict has an edge from a to b: b is one of the imports of the key a.
Edge(map, a, b) == b \in Range(Neighbors(map, a))

RECURSIVE ReachableIn(_, _, _)
\* The nodes reached from the set S by one to n edges.
ReachableIn(map, S, n) ==
  IF n = 0 THEN {}
  ELSE LET next == {b \in Modules : \E a \in S : Edge(map, a, b)}
       IN  next \cup ReachableIn(map, next, n - 1)

\* The dict contains a directed cycle.
HasCycle(map) ==
  \E m \in Modules : m \in ReachableIn(map, {m}, Cardinality(Modules))

\* A reported cycle is a closed walk of the dict: it begins and ends with
\* the same module and every consecutive pair is an edge.
IsClosedWalk(map, c) ==
  /\ Len(c) >= 2
  /\ c[1] = c[Len(c)]
  /\ \A i \in 1..(Len(c) - 1) : Edge(map, c[i], c[i + 1])

(***************************************************************************)
(* tools/dependency_mapper.py: _extract_external_dependencies.             *)
(*                                                                         *)
(* The production and development lists are built with list(set(...)).    *)
(* The iteration order of a set of str is fixed by the hash values of the  *)
(* strings, which CPython randomizes per interpreter process (the hash     *)
(* seed).  A process's hash seed is modelled by the order in which its     *)
(* sets list the package names: any permutation of them, chosen when the   *)
(* process starts and kept for all its calls.                              *)
(***************************************************************************)

\* Bound on the number of files of one input.
MaxFiles == 2

\* Bound on the number of calls made on one input.
MaxCalls == 2

\* The interpreter processes that run the tool.
Processes == {1, 2}

\* The package names the manifests declare.
Packages == {"redis", "dotenv", "uuid"}

\* The languages whose manifests the vocabulary holds.
Languages == {"python", "javascript"}

\* The texts of the package.json files of the vocabulary.
PackageJsonA ==
  "{\"dependencies\": {\"redis\": \"^4.6\", \"dotenv\": \"^16.0\"}, \"devDependencies\": {\"uuid\": \"^9.0\"}}"
PackageJsonB == "{\"dependencies\": {\"uuid\": \"^9.0\"}}"
PackageJsonMalformed == "{\"dependencies\": {\"redis\": "

\* The manifest files an input is built from.
ManifestFiles ==
  { [path |-> "requirements.txt", content |-> "redis==5.0\ndotenv\n"],
    [path |-> "requirements-dev.txt", content |-> "# tools\nuuid>=1.30\n\n redis <6"],
    [path |-> "package.json", content |-> PackageJsonA],
    [path |-> "web/package.json", content |-> PackageJsonB],
    [path |-> "api/package.json", content |-> PackageJsonMalformed] }

\* re.split(r'[><=!]', line)[0]
BeforeSpecifier(line) ==
  IF \A i \in 1..Len(line) : SubSeq(line, i, i) \notin {">", "<", "=", "!"} THEN line
  ELSE LET i == CHOOSE k \in 1..Len(line) :
                  /\ SubSeq(line, k, k) \in {">", "<", "=", "!"}
                  /\ \A j \in 1..(k - 1) : SubSeq(line, j, j) \notin {">", "<", "=", "!"}
       IN  SubSeq(line, 1, i - 1)

RECURSIVE RequirementLines(_)
\* The loop of _parse_requirements_txt over the split lines.
RequirementLines(lines) ==
  IF Len(lines) = 0 THEN << >>
  ELSE LET line == Strip(Head(lines))
       IN  IF Len(line) > 0 /\ ~StartsWith(line, "#")
           THEN << Strip(BeforeSpecifier(line)) >> \o RequirementLines(Tail(lines))
           ELSE RequirementLines(Tail(lines))

\* _parse_requirements_txt(content)
ParseRequirementsTxt(content) == RequirementLines(Split(content, "\n"))

\* json.loads(content) on the texts of the vocabulary: the parsed object, as
\* its two dependency dicts' keys in document order, or None when the
\* library raises.
JsonLoads(content) ==
  CASE content = PackageJsonA ->
         Some([dependencies |-> << "redis", "dotenv" >>, devDependencies |-> << "uuid" >>])
    [] content = PackageJsonB ->
         Some([dependencies |-> << "uuid" >>, devDependencies |-> << >>])
    [] OTHER -> None

\* _parse_package_json(content)
ParsePackageJson(content) ==
  LET data == JsonLoads(content)
  IN  IF data = None
      THEN [production |-> << >>, development |-> << >>, total_count |-> 0]
      ELSE [production  |-> data[1].dependencies,
            development |-> data[1].devDependencies,
            total_count |-> Len(data[1].dependencies) + Len(data[1].devDependencies)]

\* The body of the for loop of _extract_external_dependencies for one file.
ReadManifest(dependencies, file_info, lang) ==
  IF lang = "python"
  THEN IF Contains("requirements", Lower(file_info.path))
       THEN [dependencies EXCEPT
               !.production = @ \o ParseRequirementsTxt(file_info.content)]
       ELSE dependencies
  ELSE IF lang \in {"javascript", "typescript"}
  THEN IF Contains("package.json", file_info.path)
       THEN ParsePackageJson(file_info.content)    \* dependencies.update(deps)
       ELSE dependencies
  ELSE dependencies

RECURSIVE ReadManifests(_, _, _)
\* The for loop of _extract_external_dependencies.
ReadManifests(dependencies, fs, lang) ==
  IF Len(fs) = 0 THEN dependencies
  ELSE ReadManifests(ReadManifest(dependencies, Head(fs), lang), Tail(fs), lang)

\* list(set(xs)) in a process whose sets list the names in the order seed.
ListOfSet(seed, xs) == SelectSeq(seed, LAMBDA p : p \in Range(xs))

\* _extract_external_dependencies(files, language) in a process with the
\* given hash seed.
ExtractExternalDependencies(seed, fs, lang) ==
  LET read == ReadManifests(
                [production |-> << >>, development |-> << >>, total_count |-> 0],
                fs, lang)
      production  == ListOfSet(seed, read.production)
      development == ListOfSet(seed, read.development)
  IN  [production  |-> production,
       development |-> development,
       total_count |-> Len(production) + Len(development)]

\* The hash seeds: the orders in which a process's sets can list the names.
HashSeeds == {s \in SeqsOfLen(Packages, Cardinality(Packages)) : Range(s) = Packages}

\* A caller prepares an input for the given mapper_language.
BeginMapping ==
  /\ extStatus = "idle"
  /\ \E lang \in Languages : mapper_language' = lang
  /\ extStatus' = "input"
  /\ UNCHANGED << mapper_files, hashSeed, extCalls, notExt >>

\* The caller adds a file to the input.
AddFile ==
  /\ extStatus = "input"
  /\ Len(mapper_files) < MaxFiles
  /\ \E f \in ManifestFiles : mapper_files' = Append(mapper_files, f)
  /\ UNCHANGED << extStatus, mapper_language, hashSeed, extCalls, notExt >>

\* An interpreter process starts: its hash seed is drawn.
StartProcess ==
  /\ \E p \in Processes, seed \in HashSeeds :
       /\ hashSeed[p] = None
       /\ hashSeed' = [hashSeed EXCEPT ![p] = Some(seed)]
  /\ UNCHANGED << extStatus, mapper_language, mapper_files, extCalls, notExt >>

\* A running process calls _extract_external_dependencies on the input.
ExtractExternal ==
  /\ extStatus \in {"input", "called"}
  /\ Len(extCalls) < MaxCalls
  /\ \E p \in Processes :
       /\ hashSeed[p] # None
       /\ extCalls' = Append(extCalls,
            [process |-> p,
             result  |-> ExtractExternalDependencies(hashSeed[p][1], mapper_files, mapper_language)])
  /\ extStatus' = "called"
  /\ UNCHANGED << mapper_language, mapper_files, hashSeed, notExt >>

ExtNext == BeginMapping \/ AddFile \/ StartProcess \/ ExtractExternal

(***************************************************************************)
(* tools/code_analyzer.py: CodeAnalyzerTool.execute.                       *)
(*                                                                         *)
(* A source text is a str written from the lines of a small vocabulary and *)
(* joined by "\n", with or without a final newline.  ast.parse is library  *)
(* code: PyParse gives its outcome on these texts, following the rules of  *)
(* the Python parser that the vocabulary exercises (encoding of the text,  *)
(* bracket matching, indentation and blocks).  A lone surrogate code       *)
(* point (U+DC80), which a str decoded from JSON can hold, is written ~.   *)
(***************************************************************************)

\* Bound on the number of lines of a source text.
MaxLines == 3

\* The stand-in for the lone surrogate code point U+DC80.
Surrogate == "~"

\* The lines source texts are written from.
LineVocabulary ==
  { "x = 1", "", "# note", "def f(a):", "    return a", "def g(:",
    "s = '~'", "async def h():", "class A:" }

\* The language tags of the calls: python and one tag without an analysis.
CodeLanguages == {"python", "go"}

\* What follows the last line of a text.
Terminators == {"", "\n"}

\* The number of leading spaces of a line.
Indent(line) ==
  IF \A i \in 1..Len(line) : SubSeq(line, i, i) = " " THEN Len(line)
  ELSE (CHOOSE k \in 1..Len(line) :
          /\ SubSeq(line, k, k) # " "
          /\ \A j \in 1..(k - 1) : SubSeq(line, j, j) = " ") - 1

\* The number of occurrences of the character c in s.
CountChar(s, c) == Cardinality({i \in 1..Len(s) : SubSeq(s, i, i) = c})

\* The logical lines of a text: its lines that are neither blank nor a
\* comment, each with its line number, indentation and stripped text.
LogicalLines(lines) ==
  LET keep == SelectSeq([i \in 1..Len(lines) |-> i],
                        LAMBDA i : /\ Strip(lines[i]) # ""
                                   /\ ~StartsWith(Strip(lines[i]), "#"))
  IN  [k \in 1..Len(keep) |->
         [lineno |-> keep[k], indent |-> Indent(lines[keep[k]]),
          text |-> Strip(lines[keep[k]])]]

\* A logical line that opens a block: def, async def, class.
IsHeader(text) == Len(text) > 0 /\ SubSeq(text, Len(text), Len(text)) = ":"

\* The brackets of a logical line match.
BracketsMatch(text) == CountChar(text, "(") = CountChar(text, ")")

RECURSIVE PopTo(_, _)
\* The indentation stack after a dedent to the given column.
PopTo(stack, indent) ==
  IF Len(stack) = 0 \/ stack[Len(stack)] <= indent THEN stack
  ELSE PopTo(SubSeq(stack, 1, Len(stack) - 1), indent)

RECURSIVE BlocksOk(_, _, _)
\* The indentation of the logical lines from the given state of the
\* tokenizer: the stack of open indentation levels, and whether the
\* previous logical line opened a block.
BlocksOk(ll, stack, expect_block) ==
  IF Len(ll) = 0 THEN ~expect_block
  ELSE LET l   == Head(ll)
           top == stack[Len(stack)]
       IN  IF expect_block
           THEN /\ l.indent > top
                /\ BlocksOk(Tail(ll), Append(stack, l.indent), IsHeader(l.text))
           ELSE /\ l.indent <= top
                /\ PopTo(stack, l.indent)[Len(PopTo(stack, l.indent))] = l.indent
                /\ BlocksOk(Tail(ll), PopTo(stack, l.indent), IsHeader(l.text))

\* The name a def or class line declares: the text between the keyword and
\* the first "(" or ":".
DeclaredName(text, keyword) ==
  LET rest == SubSeq(text, Len(keyword) + 1, Len(text))
      stop == CHOOSE k \in 1..Len(rest) :
                /\ SubSeq(rest, k, k) \in {"(", ":"}
                /\ \A j \in 1..(k - 1) : SubSeq(rest, j, j) \notin {"(", ":"}
  IN  SubSeq(rest, 1, stop - 1)

\* The number of statements of the block a header at position k opens.
BodyLength(ll, k) ==
  LET after == {j \in (k + 1)..Len(ll) : ll[j].indent <= ll[k].indent}
      last  == IF after = {} THEN Len(ll)
               ELSE (CHOOSE j \in after : \A i \in after : j <= i) - 1
  IN  last - k

\* ast.parse(code): the exception it raises, or the tree, given as the
\* FunctionDef and ClassDef nodes that ast.walk visits, in its order.
PyParse(source) ==
  LET ll == LogicalLines(Split(source, "\n"))
  IN  IF Contains(Surrogate, source)
      THEN [outcome |-> "UnicodeEncodeError"]
      ELSE IF \/ \E k \in 1..Len(ll) : ~BracketsMatch(ll[k].text)
              \/ ~BlocksOk(ll, << 0 >>, FALSE)
      THEN [outcome |-> "SyntaxError"]
      ELSE [outcome |-> "tree",
            functions |->
              LET ks == SelectSeq([k \in 1..Len(ll) |-> k],
                                  LAMBDA k : StartsWith(ll[k].text, "def "))
              IN  [i \in 1..Len(ks) |->
                     [name |-> DeclaredName(ll[ks[i]].text, "def "),
                      line |-> ll[ks[i]].lineno,
                      length |-> 1 + BodyLength(ll, ks[i])]],
            classes |->
              LET ks == SelectSeq([k \in 1..Len(ll) |-> k],
                                  LAMBDA k : StartsWith(ll[k].text, "class "))
              IN  [i \in 1..Len(ks) |->
                     [name |-> DeclaredName(ll[ks[i]].text, "class "),
                      line |-> ll[ks[i]].lineno]]]

\* Statistics that count every line that is not blank as a code line.
StatsWithCommentsAsCode(source) ==
  LET lines   == Split(source, "\n")
      Count(P(_)) == Cardinality({i \in 1..Len(lines) : P(lines[i])})
      IsCode(l)    == Strip(l) # ""
      IsBlank(l)   == Strip(l) = ""
      IsComment(l) == StartsWith(Strip(l), "#")
  IN  [total_lines   |-> Len(lines),
       code_lines    |-> Count(IsCode),
       blank_lines   |-> Count(IsBlank),
       comment_lines |-> Count(IsComment),
       characters    |-> Len(source)]

\* _get_basic_stats(code)
GetBasicStats(source) ==
  LET lines   == Split(source, "\n")
      Count(P(_)) == Cardinality({i \in 1..Len(lines) : P(lines[i])})
      IsCode(l)    == Strip(l) # "" /\ ~StartsWith(Strip(l), "#")
      IsBlank(l)   == Strip(l) = ""
      IsComment(l) == StartsWith(Strip(l), "#")
  IN  [total_lines   |-> Len(lines),
       code_lines    |-> Count(IsCode),
       blank_lines   |-> Count(IsBlank),
       comment_lines |-> Count(IsComment),
       characters    |-> Len(source)]

\* _avg_function_length(tree), in hundredths: the mean number of lines of
\* the unparsed FunctionDef nodes.
AvgFunctionLength(functions) ==
  IF Len(functions) = 0 THEN 0
  ELSE (SumSeq([i \in 1..Len(functions) |-> functions[i].length]) * 100)
         \div Len(functions)

\* A dict returned by execute.
Returned(value) == [status |-> "returned", value |-> value]

\* An exception that leaves execute.
Raised(exception) == [status |-> "raised", exception |-> exception]

\* The dict of the except SyntaxError branch of _analyze_python.  The text
\* of the library's message is not modelled.
SyntaxErrorResult(source, file_path) ==
  [error |-> "Erro de sintaxe", language |-> "python", file_path |-> file_path,
   stats |-> GetBasicStats(source)]

\* _analyze_python(code, file_path)
AnalyzePython(source, file_path) ==
  LET parsed == PyParse(source)
  IN  IF parsed.outcome = "tree"
      THEN Returned(
             [language |-> "python", file_path |-> file_path,
              stats |-> GetBasicStats(source),
              structure |->
                [functions |-> [i \in 1..Len(parsed.functions) |->
                                  [name |-> parsed.functions[i].name,
                                   line |-> parsed.functions[i].line,
                                   is_async |-> FALSE]],
                 classes |-> [i \in 1..Len(parsed.classes) |->
                                [name |-> parsed.classes[i].name,
                                 line |-> parsed.classes[i].line,
                                 methods |-> << >>]],
                 imports |-> << >>,
                 constants |-> << >>],
              metrics |->
                [total_functions |-> Len(parsed.functions),
                 total_classes |-> Len(parsed.classes),
                 total_imports |-> 0,
                 total_constants |-> 0,
                 avg_function_length |-> AvgFunctionLength(parsed.functions)]])
      ELSE IF parsed.outcome = "SyntaxError"
      THEN Returned(SyntaxErrorResult(source, file_path))
      ELSE Raised(parsed.outcome)

\* A dispatcher that hands every language tag to the Python analysis.
DispatchToPython(source, lang) == AnalyzePython(source, "unknown")

\* The else branch of execute: a language tag without an analysis.
UnsupportedLanguage(source, lang) ==
  Returned([error |-> "Analise para " \o lang \o " ainda nao implementada",
            basic_stats |-> GetBasicStats(source)])

\* CodeAnalyzerTool.execute(input_data) without a file_path.
CodeExecute(source, lang) ==
  IF lang = "python" THEN AnalyzePython(source, "unknown")
  ELSE UnsupportedLanguage(source, lang)

\* A caller starts to write a source text.
BeginSource ==
  /\ codeStatus = "idle"
  /\ codeStatus' = "typing"
  /\ UNCHANGED << source_lines, code, code_language, analysis, notCode >>

\* The caller writes one more line.
AddLine ==
  /\ codeStatus = "typing"
  /\ Len(source_lines) < MaxLines
  /\ \E line \in LineVocabulary : source_lines' = Append(source_lines, line)
  /\ UNCHANGED << codeStatus, code, code_language, analysis, notCode >>

\* The caller joins the lines and calls execute with a language tag.
Analyze ==
  /\ codeStatus = "typing"
  /\ \E lang \in CodeLanguages, end \in Terminators :
       LET source == Join("\n", source_lines) \o end
       IN  /\ code' = source
           /\ code_language' = lang
           /\ analysis' = Some(CodeExecute(source, lang))
  /\ codeStatus' = "analyzed"
  /\ UNCHANGED << source_lines, notCode >>

CodeNext == BeginSource \/ AddLine \/ Analyze

(***************************************************************************)
(* Interleaved calls of ArchitectureDetectorTool.execute.                  *)
(*                                                                         *)
(* DocumentationAgent._register_tools creates one instance of each tool,   *)
(* and execute_tool hands every call to that instance.  The tool classes   *)
(* assign no instance attribute: execute works on its local variables and  *)
(* reads the module-level catalog.  A call is modelled step by step (one   *)
(* step per iteration of its two loops), so that the steps of two calls    *)
(* interleave in every order, which covers an orchestrator that runs the   *)
(* calls on threads as well as one that awaits them on an event loop.      *)
(***************************************************************************)

\* The calls in flight on the one detector instance.
Calls == {1, 2}

\* The inputs the calls are given.
ConcurrentInputs ==
  { [directory_names |-> << "models", "views", "controllers" >>,
     file_names      |-> << >>,
     file_structure  |-> << >>],
    [directory_names |-> << "domain", "application", "infrastructure" >>,
     file_names      |-> << "UserRepository.py", "base_repository.py", "order_repository.py" >>,
     file_structure  |-> << >>],
    [directory_names |-> << "User_Service", "order_service" >>,
     file_names      |-> << "event_handler.py" >>,
     file_structure  |-> << "docker-compose.yml" >>],
    [directory_names |-> << >>,
     file_names      |-> << >>,
     file_structure  |-> << >>] }

\* No call frame: the call has not begun, or it has returned.
NoFrame ==
  [dirs_lower |-> << >>, files_lower |-> << >>, struct_str |-> "",
   patterns |-> << >>, step |-> 0]

\* A single frame for all calls, as if the locals were instance attributes.
SharedCell(c) == 1

\* The frame that holds the local variables of call c: the call's own
\* (file_names, dirs_lower, patterns, ... are locals of execute).
Cell(c) == c

\* The number of detection steps of execute: one per generic pattern, then
\* repository, microservices and event-driven.
DetectionSteps(cfgs) == Len(cfgs) + 3

\* The result of detection step number step on the locals f.
DetectionStep(cfgs, f, step) ==
  IF step <= Len(cfgs) THEN DetectGeneric(cfgs[step], f.dirs_lower, f.files_lower)
  ELSE IF step = Len(cfgs) + 1 THEN DetectRepository(f.files_lower, f.struct_str)
  ELSE IF step = Len(cfgs) + 2 THEN DetectMicroservices(f.dirs_lower, f.struct_str)
  ELSE DetectEventDriven(f.files_lower, f.struct_str)

\* execute_tool hands a call to the detector: execute reads input_data and
\* precomputes the search strings.
CallBegin ==
  \E c \in Calls, input \in ConcurrentInputs :
    /\ callStatus[c] = "idle"
    /\ callStatus' = [callStatus EXCEPT ![c] = "running"]
    /\ callInput' = [callInput EXCEPT ![c] = Some(input)]
    /\ frames_of' = [frames_of EXCEPT ![Cell(c)] =
         [dirs_lower  |-> LowerAll(input.directory_names),
          files_lower |-> LowerAll(input.file_names),
          struct_str  |-> StructStr(input.file_structure),
          patterns    |-> << >>,
          step        |-> 1]]
    /\ overlapped' = (overlapped \/ \E d \in Calls \ {c} : callStatus[d] = "running")
    /\ UNCHANGED << catalog, callResult, notConc >>

\* One iteration of the two detection loops of a running call.
CallDetect ==
  \E c \in Calls :
    LET f == frames_of[Cell(c)]
    IN  /\ callStatus[c] = "running"
        /\ f.step \in 1..DetectionSteps(catalog)
        /\ frames_of' = [frames_of EXCEPT ![Cell(c)] =
             [f EXCEPT !.patterns = @ \o DetectionStep(catalog, f, f.step),
                       !.step = @ + 1]]
        /\ UNCHANGED << catalog, callStatus, callInput, callResult, overlapped, notConc >>

\* The call sorts its patterns, builds the report and returns it.
CallReturn ==
  \E c \in Calls :
    LET f == frames_of[Cell(c)]
    IN  /\ callStatus[c] = "running"
        /\ f.step > DetectionSteps(catalog)
        /\ callResult' = [callResult EXCEPT ![c] =
             Some(ArchitectureReport(SortByConfidence(f.patterns),
                                     f.files_lower, f.struct_str))]
        /\ callStatus' = [callStatus EXCEPT ![c] = "done"]
        /\ frames_of' = [frames_of EXCEPT ![Cell(c)] = NoFrame]
        /\ UNCHANGED << catalog, callInput, overlapped, notConc >>

ConcNext == CallBegin \/ CallDetect \/ CallReturn

(***************************************************************************)
(* tools/dependency_mapper.py: metrics and recommendations.                *)
(*                                                                         *)
(* execute hands the internal dependency dict and the external count to    *)
(* _calculate_dependency_metrics, and the cycle list and the metrics to    *)
(* _get_dependency_recommendations.  The inputs here are dicts whose       *)
(* import lists have the lengths around the coupling cut-offs (an average  *)
(* above 5 is medium, above 10 is high), cycle lists that are closed walks *)
(* of the dict, and external counts around the cut-off of 50.  An average  *)
(* is an integer number of hundredths.                                     *)
(***************************************************************************)

\* Bound on the number of modules of one internal dependency dict.
MaxModules == 2

\* The lengths of the import lists: around the cut-offs of _calculate_coupling.
ImportCounts == {1, 10, 11}

\* The values of external_deps["total_count"]: around the cut-off of 50.
ExternalCounts == {0, 50, 51}

\* An import list that names one target n times (one import per line).
RepeatedImport(target, n) == [i \in 1..n |-> target]

\* The cycle lists _detect_circular_dependencies can report for a dict:
\* none when the dict has no cycle, otherwise one or two distinct closed
\* walks of the dict.
CycleLists(map) ==
  LET walks == { c \in UNION { SeqsOfLen(Keys(map), n) : n \in 2..3 } :
                   IsClosedWalk(map, c) }
  IN  IF ~HasCycle(map) THEN { << >> }
      ELSE { << c >> : c \in walks }
           \cup { p \in { << c, d >> : c \in walks, d \in walks } : p[1] # p[2] }

\* sum(len(deps) for deps in dependency_map.values())
TotalInternal(map) == SumSeq([i \in 1..Len(map) |-> Len(map[i].imports)])

\* round(total / count, 2), in hundredths (count > 0).
RoundedAverage(total, count) == (total * 200 + count) \div (2 * count)

\* _calculate_coupling(dependency_map)
CalculateCoupling(map) ==
  IF Len(map) = 0 THEN "none"
  ELSE IF TotalInternal(map) > 10 * Len(map) THEN "high"
  ELSE IF TotalInternal(map) > 5 * Len(map) THEN "medium"
  ELSE "low"

RECURSIVE MostDependent(_, _)
\* The loop of _calculate_dependency_metrics: the first module with the
\* highest import count, starting from the best found so far.
MostDependent(map, best) ==
  IF Len(map) = 0 THEN best
  ELSE IF Len(Head(map).imports) > best.count
       THEN MostDependent(Tail(map),
                          [path |-> Some(Head(map).path), count |-> Len(Head(map).imports)])
       ELSE MostDependent(Tail(map), best)

\* _calculate_dependency_metrics(internal_deps, external_deps)
CalculateDependencyMetrics(map, total_external) ==
  LET most == MostDependent(map, [path |-> None, count |-> 0])
  IN  [total_internal_dependencies |-> TotalInternal(map),
       total_external_dependencies |-> total_external,
       avg_dependencies_per_module |->
         IF Len(map) > 0 THEN RoundedAverage(TotalInternal(map), Len(map)) ELSE 0,
       most_dependent_module |->
         IF most.path # None THEN Some([path |-> most.path[1], count |-> most.count])
         ELSE None,
       coupling_level |-> CalculateCoupling(map)]

\* The three warnings of _get_dependency_recommendations.
CircularWarning(cycles) ==
  "[!] " \o ToString(Len(cycles)) \o " dependencia(s) circular(es) detectada(s). "
  \o "Considere refatorar para evitar acoplamento."

CouplingWarning ==
  "Alto acoplamento detectado. Considere aplicar Dependency Injection "
  \o "ou Inversion of Control."

ExternalWarning(count) ==
  ToString(count) \o " dependencias externas. Avalie se todas sao necessarias. "
  \o "Muitas dependencias aumentam risco de seguranca e tamanho do bundle."

\* The affirmative message.
HealthyMessage == "[ok] Estrutura de dependencias saudavel"

\* A mapper that adds the affirmative message to every list.
AlwaysHealthy(recommendations) == Append(recommendations, HealthyMessage)

\* if not recommendations: recommendations.append(affirmative message)
HealthyFallback(recommendations) ==
  IF Len(recommendations) = 0 THEN << HealthyMessage >> ELSE recommendations

\* _get_dependency_recommendations(circular_deps, metrics)
GetDependencyRecommendations(cycles, metrics) ==
  HealthyFallback(
       (IF Len(cycles) > 0 THEN << CircularWarning(cycles) >> ELSE << >>)
    \o (IF metrics.coupling_level = "high" THEN << CouplingWarning >> ELSE << >>)
    \o (IF metrics.total_external_dependencies > 50
        THEN << ExternalWarning(metrics.total_external_dependencies) >> ELSE << >>))

\* execute has the internal dependency dict in hand.
BeginMetrics ==
  /\ recStatus = "idle"
  /\ recStatus' = "input"
  /\ UNCHANGED << internal_deps, circular_deps, external_count, mapper_metrics,
                  mapper_recommendations, notRec >>

\* One more module with internal imports is in the dict.
AddInternal ==
  /\ recStatus = "input"
  /\ Len(internal_deps) < MaxModules
  /\ \E m \in Modules \ Keys(internal_deps), target \in Modules, n \in ImportCounts :
       internal_deps' = Append(internal_deps,
                               [path |-> m, imports |-> RepeatedImport(target, n)])
  /\ UNCHANGED << recStatus, circular_deps, external_count, mapper_metrics,
                  mapper_recommendations, notRec >>

\* execute computes the metrics and the recommendations.
Recommend ==
  /\ recStatus = "input"
  /\ \E cycles \in CycleLists(internal_deps), count \in ExternalCounts :
       LET metrics == CalculateDependencyMetrics(internal_deps, count)
       IN  /\ circular_deps' = cycles
           /\ external_count' = count
           /\ mapper_metrics' = Some(metrics)
           /\ mapper_recommendations' = GetDependencyRecommendations(cycles, metrics)
  /\ recStatus' = "done"
  /\ UNCHANGED << internal_deps, notRec >>

RecNext == BeginMetrics \/ AddInternal \/ Recommend

(***************************************************************************)
(* The regular expressions of tools/quality_checker.py.                    *)
(*                                                                         *)
(* A pattern is a list of alternatives; an alternative is a list of items; *)
(* an item is a character class with a repetition range.  Matching is      *)
(* Python's: alternatives in order, every repetition greedy, backtracking  *)
(* to a shorter repetition when the rest of the alternative fails.         *)
(***************************************************************************)

Unbounded == 100000

LowerLetters ==
  {"a", "b", "c", "d", "e", "f", "g", "h", "i", "j", "k", "l", "m",
   "n", "o", "p", "q", "r", "s", "t", "u", "v", "w", "x", "y", "z"}

UpperLetters ==
  {"A", "B", "C", "D", "E", "F", "G", "H", "I", "J", "K", "L", "M",
   "N", "O", "P", "Q", "R", "S", "T", "U", "V", "W", "X", "Y", "Z"}

Digits == {"0", "1", "2", "3", "4", "5", "6", "7", "8", "9"}

\* \w
WordChars == LowerLetters \cup UpperLetters \cup Digits \cup {"_"}

\* \s
SpaceChars == {" ", "\t", "\n", "\r"}

\* One item: the characters of `chars` (or all others when `neg`), repeated
\* between `least` and `most` times.
Item(chars, neg, least, most) ==
  [chars |-> chars, neg |-> neg, least |-> least, most |-> most]

One(chars)  == Item(chars, FALSE, 1, 1)
Plus(chars) == Item(chars, FALSE, 1, Unbounded)
Star(chars) == Item(chars, FALSE, 0, Unbounded)
StarNot(chars) == Item(chars, TRUE, 0, Unbounded)
PlusNot(chars) == Item(chars, TRUE, 1, Unbounded)

\* A literal text: one item per character.
Literal(text) == [i \in 1..Len(text) |-> One({SubSeq(text, i, i)})]

\* Does the character at position i of s belong to the item's class?
Accepts(item, s, i) ==
  i <= Len(s) /\ ((SubSeq(s, i, i) \in item.chars) # item.neg)

\* min(S) for a non-empty set of integers.
Minimum(S) == CHOOSE x \in S : \A y \in S : x <= y

\* The longest repetition of the item at position i, at most `most`: it
\* ends before the first character the class rejects.
RunLength(item, s, i, most) ==
  Minimum({j \in i..Min(i + most, Len(s) + 1) : j = i + most \/ ~Accepts(item, s, j)}) - i

RECURSIVE MatchRest(_, _, _, _, _)
\* The match of items k.. at position i with n repetitions of item k, then
\* n - 1, down to its least: the end of each item (the position after its
\* last character) and the end of the match, or << >> when there is none.
MatchRest(items, k, s, i, n) ==
  IF n < items[k].least THEN << >>
  ELSE LET Matched(rest) == IF rest # << >> THEN << i + n >> \o rest
                            ELSE MatchRest(items, k, s, i, n - 1)
       IN  Matched(IF k = Len(items) THEN << i + n >>
                   ELSE MatchRest(items, k + 1, s, i + n,
                                  RunLength(items[k + 1], s, i + n, items[k + 1].most)))

\* The match of the items at position i.
MatchItems(items, s, i) ==
  MatchRest(items, 1, s, i, RunLength(items[1], s, i, items[1].most))

RECURSIVE MatchAt(_, _, _)
\* The match of the first alternative that matches at position i:
\* [from, ends], or None.
MatchAt(pattern, s, i) ==
  IF Len(pattern) = 0 THEN None
  ELSE LET Matched(ends) ==
             IF ends # << >>
             THEN Some([from |-> i, ends |-> SubSeq(ends, 1, Len(ends) - 1)])
             ELSE MatchAt(Tail(pattern), s, i)
       IN  Matched(MatchItems(Head(pattern), s, i))

\* The position after a match.
MatchEnd(match) == match.ends[Len(match.ends)]

\* The positions from i on where the pattern matches.
MatchStarts(pattern, s, i) == {j \in i..Len(s) : MatchAt(pattern, s, j) # None}

RECURSIVE FindallFrom(_, _, _)
\* re.findall(pattern, s): the matches from left to right, none overlapping.
FindallFrom(pattern, s, i) ==
  LET Rest(found) == << found >> \o FindallFrom(pattern, s, MatchEnd(found))
      From(starts) == IF starts = {} THEN << >>
                      ELSE Rest(MatchAt(pattern, s, Minimum(starts))[1])
  IN  From(MatchStarts(pattern, s, i))

Findall(pattern, s) == FindallFrom(pattern, s, 1)

\* re.search(pattern, s) is not None
Search(pattern, s) == MatchStarts(pattern, s, 1) # {}

\* The text of item k of a match (a group of one item).
Group(match, k, s) ==
  LET start == IF k = 1 THEN match.from ELSE match.ends[k - 1]
  IN  SubSeq(s, start, match.ends[k] - 1)

\* The text of items k1..k2 of a match.
GroupSpan(match, k1, k2, s) ==
  LET start == IF k1 = 1 THEN match.from ELSE match.ends[k1 - 1]
  IN  SubSeq(s, start, match.ends[k2] - 1)

\* r'def\s+(\w+)\s*\('
DEF_CALL ==
  << Literal("def") \o << Plus(SpaceChars), Plus(WordChars), Star(SpaceChars), One({"("}) >> >>

\* r'def\s+\w+\s*\([^)]*\)\s*:\s*"""'
DEF_DOCSTRING ==
  << Literal("def")
     \o << Plus(SpaceChars), Plus(WordChars), Star(SpaceChars), One({"("}),
           StarNot({")"}), One({")"}), Star(SpaceChars), One({":"}), Star(SpaceChars) >>
     \o Literal("\"\"\"") >>

\* r'class\s+(\w+)'
CLASS_NAME == << Literal("class") \o << Plus(SpaceChars), Plus(WordChars) >> >>

\* r'class\s+\w+[^:]*:\s*"""'
CLASS_DOCSTRING ==
  << Literal("class")
     \o << Plus(SpaceChars), Plus(WordChars), StarNot({":"}), One({":"}), Star(SpaceChars) >>
     \o Literal("\"\"\"") >>

\* r'def\s+test_\w+'
TEST_DEF ==
  << Literal("def") \o << Plus(SpaceChars) >> \o Literal("test_") \o << Plus(WordChars) >> >>

\* r'it\s*\(|test\s*\('
TEST_CALL ==
  << Literal("it") \o << Star(SpaceChars), One({"("}) >>,
     Literal("test") \o << Star(SpaceChars), One({"("}) >> >>

\* r'class\s+([a-z_]\w*)': the name is items 7 and 8.
CLASS_LOWER ==
  << Literal("class")
     \o << Plus(SpaceChars), One(LowerLetters \cup {"_"}), Star(WordChars) >> >>

\* r'def\s+([A-Z]\w*)\s*\(': the name is items 5 and 6.
DEF_UPPER ==
  << Literal("def")
     \o << Plus(SpaceChars), One(UpperLetters), Star(WordChars), Star(SpaceChars),
           One({"("}) >> >>

\* r'def\s+(\w+)'
DEF_NAME == << Literal("def") \o << Plus(SpaceChars), Plus(WordChars) >> >>

\* r'def\s+(\w+)\s*\([^)]*\):', the head of function_pattern; the name is
\* item 5.
FUNCTION_HEAD ==
  << Literal("def")
     \o << Plus(SpaceChars), Plus(WordChars), Star(SpaceChars), One({"("}),
           StarNot({")"}), One({")"}), One({":"}) >> >>

\* r'\ndef\s|\nclass\s', the lookahead of function_pattern.
FUNCTION_STOP ==
  << Literal("\ndef") \o << One(SpaceChars) >>,
     Literal("\nclass") \o << One(SpaceChars) >> >>

\* r'(password|secret|api_key)\s*=\s*["\'][^"\']+["\']'
SecretAssignment(keyword) ==
  Literal(keyword)
  \o << Star(SpaceChars), One({"="}), Star(SpaceChars), One({"\"", "'"}),
        PlusNot({"\"", "'"}), One({"\"", "'"}) >>

SECRET ==
  << SecretAssignment("password"), SecretAssignment("secret"), SecretAssignment("api_key") >>

\* r'TODO|FIXME'
TODO_FIXME == << Literal("TODO"), Literal("FIXME") >>

\* \b at position i of s: between a word character and none.
IsWordAt(s, i) == i >= 1 /\ i <= Len(s) /\ SubSeq(s, i, i) \in WordChars

\* len(re.findall(r'\bword\b', s))
CountWord(word, s) ==
  Cardinality({i \in 1..(Len(s) - Len(word) + 1) :
                 /\ SubSeq(s, i, i + Len(word) - 1) = word
                 /\ ~IsWordAt(s, i - 1)
                 /\ ~IsWordAt(s, i + Len(word))})

\* (.*?)(?=\ndef\s|\nclass\s|\Z) from position i: the body is lazy, so it
\* ends at the first position where the lookahead holds.
BodyEnd(s, i) == Minimum(MatchStarts(FUNCTION_STOP, s, i) \cup {Len(s) + 1})

RECURSIVE FunctionsFrom(_, _)
\* re.findall(function_pattern, content, re.DOTALL): (name, body) pairs.
FunctionsFrom(s, i) ==
  LET Function(found, stop) ==
        << [name |-> Group(found, 5, s),
            body |-> SubSeq(s, MatchEnd(found), stop - 1)] >>
        \o FunctionsFrom(s, stop)
      Body(found) == Function(found, BodyEnd(s, MatchEnd(found)))
      From(starts) == IF starts = {} THEN << >>
                      ELSE Body(MatchAt(FUNCTION_HEAD, s, Minimum(starts))[1])
  IN  From(MatchStarts(FUNCTION_HEAD, s, i))

\* The estimate of one function's complexity.
Complexity(func_body) ==
  1 + CountWord("if", func_body) + CountWord("for", func_body)
    + CountWord("while", func_body)
    + CountWord("and", func_body) + CountWord("or", func_body)

(***************************************************************************)
(* tools/quality_checker.py: QualityCheckerTool.                           *)
(*                                                                         *)
(* A score is an integer number of hundredths (round(x, 2) of a            *)
(* percentage), a percentage before rounding is a fraction << n, d >>.     *)
(***************************************************************************)

\* round(n / d, 2) in hundredths; Python rounds an exact half to even.
Round2(n, d) ==
  LET q == (100 * n) \div d
      r == (100 * n) % d
  IN  IF 2 * r < d THEN q
      ELSE IF 2 * r > d THEN q + 1
      ELSE IF q % 2 = 0 THEN q ELSE q + 1

Max(a, b) == IF a >= b THEN a ELSE b

\* What the regular expressions and the line tests of the five checks find
\* in one content.
Scan(content) ==
  LET Names(found, k1, k2) ==
        [i \in 1..Len(found) |-> GroupSpan(found[i], k1, k2, content)]
      Complexities(bodies) ==
        [i \in 1..Len(bodies) |->
           [name |-> bodies[i].name, complexity |-> Complexity(bodies[i].body)]]
      LateImports(rest) == Contains("import ", rest) /\ Contains("def ", rest)
      Found(lines) ==
        [functions       |-> Len(Findall(DEF_CALL, content)),
         func_with_docs  |-> Len(Findall(DEF_DOCSTRING, content)),
         classes         |-> Len(Findall(CLASS_NAME, content)),
         class_with_docs |-> Len(Findall(CLASS_DOCSTRING, content)),
         test_functions  |-> Len(Findall(TEST_DEF, content))
                               + Len(Findall(TEST_CALL, content)),
         lower_classes   |-> Names(Findall(CLASS_LOWER, content), 7, 8),
         upper_functions |-> Names(Findall(DEF_UPPER, content), 5, 6),
         def_names       |-> Len(Findall(DEF_NAME, content)),
         complexities    |-> Complexities(FunctionsFrom(content, 1)),
         lines           |-> Len(lines),
         secret          |-> Search(SECRET, Lower(content)),
         imports_on_top  |->
           Contains("import", Join("\n", SubSeq(lines, 1, Min(30, Len(lines))))),
         late_imports    |-> LateImports(Join("\n", SubSeq(lines, 31, Len(lines)))),
         todos           |-> Len(Findall(TODO_FIXME, content))]
  IN  Found(Split(content, "\n"))

RECURSIVE Repeat(_, _)
\* text * n, by doubling.
Repeat(text, n) ==
  IF n = 0 THEN ""
  ELSE Repeat(text, n \div 2) \o Repeat(text, n \div 2)
       \o (IF n % 2 = 1 THEN text ELSE "")

\* A module with one documented function and no class.
DocumentedSource == "def foo():\n    \"\"\"Doc.\"\"\"\n    return 1\n"

\* A lower-case class, an upper-case function of complexity 11, no docstring.
UntidySource ==
  "class bad:\n    pass\ndef Bad(x):\n"
  \o "    if x and x or x and x or x and x or x and x or x and x:\n"
  \o "        return x\n"

\* A file of another language.
ScriptSource == "function f() {}\n"

\* 509 lines with a secret, six TODOs and an import below line 30.
LargeUntidySource ==
  "import os\npassword = \"abc\"\n# TODO TODO TODO TODO TODO TODO\n"
  \o Repeat("\n", 30)
  \o "import re\nclass Late:\n    \"\"\"Doc.\"\"\"\n    def late(self):\n        pass\n"
  \o Repeat("\n", 470)

\* 501 empty lines.
LargeSource == Repeat("\n", 500)

\* The contents and language tags the files are drawn from.
Sources ==
  << [content |-> DocumentedSource,  language |-> "python"],
     [content |-> UntidySource,      language |-> "python"],
     [content |-> ScriptSource,      language |-> "javascript"],
     [content |-> LargeUntidySource, language |-> "python"],
     [content |-> LargeSource,       language |-> "python"] >>

Contents == {Sources[i].content : i \in 1..Len(Sources)}

\* The findings in each content of the vocabulary, computed once.
Scanned == [content \in Contents |-> Scan(content)]

RECURSIVE Concat(_)
\* The lists of a list, extended one after the other.
Concat(lists) == IF Len(lists) = 0 THEN << >> ELSE Head(lists) \o Concat(Tail(lists))

IsPython(file_info) == file_info.language = "python"

\* A coverage that averages only the kinds of item that exist.
CoverageOfCounted(func_coverage, class_coverage, total_functions, total_classes) ==
  IF total_functions > 0 /\ total_classes > 0
  THEN << func_coverage[1] * class_coverage[2] + class_coverage[1] * func_coverage[2],
          2 * func_coverage[2] * class_coverage[2] >>
  ELSE IF total_functions > 0 THEN func_coverage
  ELSE class_coverage

\* overall_coverage: (func_coverage + class_coverage) / 2 when there is a
\* function or a class, else 0.
OverallCoverage(func_coverage, class_coverage, total_functions, total_classes) ==
  IF total_functions + total_classes > 0
  THEN << func_coverage[1] * class_coverage[2] + class_coverage[1] * func_coverage[2],
          2 * func_coverage[2] * class_coverage[2] >>
  ELSE << 0, 1 >>

\* _check_documentation
CheckDocumentation(files) ==
  LET python == SelectSeq(files, IsPython)
      Coverage(documented, total) ==
        IF total > 0 THEN << documented * 100, total >> ELSE << 0, 1 >>
      Result(total_functions, documented_functions, total_classes,
             documented_classes, func_coverage, class_coverage, overall_coverage) ==
        [score             |-> Round2(overall_coverage[1], overall_coverage[2]),
         function_coverage |-> Round2(func_coverage[1], func_coverage[2]),
         class_coverage    |-> Round2(class_coverage[1], class_coverage[2]),
         total_items       |-> total_functions + total_classes,
         documented_items  |-> documented_functions + documented_classes]
      Covered(total_functions, documented_functions, total_classes,
              documented_classes, func_coverage, class_coverage) ==
        Result(total_functions, documented_functions, total_classes,
               documented_classes, func_coverage, class_coverage,
               OverallCoverage(func_coverage, class_coverage,
                               total_functions, total_classes))
      Counted(total_functions, documented_functions, total_classes,
              documented_classes) ==
        Covered(total_functions, documented_functions, total_classes,
                documented_classes,
                Coverage(documented_functions, total_functions),
                Coverage(documented_classes, total_classes))
      Totals(found) ==
        Counted(SumSeq([i \in 1..Len(found) |-> found[i].functions]),
                SumSeq([i \in 1..Len(found) |-> found[i].func_with_docs]),
                SumSeq([i \in 1..Len(found) |-> found[i].classes]),
                SumSeq([i \in 1..Len(found) |-> found[i].class_with_docs]))
  IN  Totals([i \in 1..Len(python) |-> Scanned[python[i].content]])

\* any(indicator in path.lower() for indicator in [...])
IsTestPath(path) ==
  \E indicator \in {"test_", "_test", "spec", "test/"} : Contains(indicator, Lower(path))

MaxQualityFiles == 4

\* The paths the file at position i is drawn from: a module or its test.
PathsAt(i) ==
  {"src/m" \o ToString(i) \o ".py", "tests/test_m" \o ToString(i) \o ".py"}

Paths == UNION {PathsAt(i) : i \in 1..MaxQualityFiles}

\* The test of each path of the vocabulary, computed once.
TestPath == [path \in Paths |-> IsTestPath(path)]

\* _check_testing: estimated_coverage is
\* min(test_files / max(total_files * 0.3, 1) * 100, 100).
CheckTesting(files) ==
  LET IsTestFile(f) == TestPath[f.path]
      tests == SelectSeq(files, IsTestFile)
      TestFunctions(f) == Scanned[f.content].test_functions
      test_files  == Len(tests)
      total_files == Len(files)
      estimated_coverage ==
        IF test_files * 1000 >= 100 * Max(total_files * 3, 10)
        THEN << 100, 1 >>
        ELSE << test_files * 1000, Max(total_files * 3, 10) >>
  IN  [score          |-> Round2(estimated_coverage[1], estimated_coverage[2]),
       test_files     |-> test_files,
       total_files    |-> total_files,
       test_functions |-> SumSeq([i \in 1..Len(tests) |-> TestFunctions(tests[i])]),
       has_tests      |-> test_files > 0]

\* violations[:10], issues[:10], complex_functions[:5]
FirstN(list, n) == SubSeq(list, 1, Min(n, Len(list)))

\* The violations of one file, classes first.  The messages are
\* "Classe '<c>' nao esta em PascalCase" and "Funcao '<f>' nao esta em
\* snake_case".
NamingViolations(file_info) ==
  LET Violations(lower_classes, upper_functions) ==
        [i \in 1..Len(lower_classes) |->
           "Classe '" \o lower_classes[i] \o "' nao esta em PascalCase"]
        \o [i \in 1..Len(upper_functions) |->
           "Funcao '" \o upper_functions[i] \o "' nao esta em snake_case"]
      Of(found) == Violations(found.lower_classes, found.upper_functions)
  IN  Of(Scanned[file_info.content])

\* _check_naming_conventions; the constants found by the third expression
\* are not used, the file counts one check for them.
CheckNamingConventions(files) ==
  LET python == SelectSeq(files, IsPython)
      Checks(found) == found.classes + found.def_names + 1
      Result(violations, total_checks) ==
        [score            |-> Round2((total_checks - Len(violations)) * 100,
                                     Max(total_checks, 1)),
         violations       |-> FirstN(violations, 10),
         total_violations |-> Len(violations),
         total_checks     |-> total_checks]
  IN  Result(Concat([i \in 1..Len(python) |-> NamingViolations(python[i])]),
             SumSeq([i \in 1..Len(python) |-> Checks(Scanned[python[i].content])]))

IsComplex(function) == function.complexity > 10

\* _check_complexity
CheckComplexity(files) ==
  LET Result(complex_functions, total_functions) ==
        [score             |->
           Max(0, Round2((Max(total_functions, 1) - Len(complex_functions)) * 100,
                         Max(total_functions, 1))),
         complex_functions |-> FirstN(complex_functions, 5),
         total_complex     |-> Len(complex_functions),
         total_functions   |-> total_functions]
      Of(complexities) ==
        Result(Concat([i \in 1..Len(files) |-> SelectSeq(complexities[i], IsComplex)]),
               SumSeq([i \in 1..Len(files) |-> Len(complexities[i])]))
  IN  Of([i \in 1..Len(files) |-> Scanned[files[i].content].complexities])

\* The threshold of check 1.
LargeFile == 500

\* The issues of one file, in the order of the four checks.
Issues(file_info) ==
  LET Of(found) ==
        (IF found.lines > LargeFile
         THEN << file_info.path \o ": Arquivo muito grande ("
                 \o ToString(found.lines) \o " linhas)" >>
         ELSE << >>)
        \o (IF found.secret
            THEN << file_info.path \o ": Possivel secret hardcoded" >>
            ELSE << >>)
        \o (IF found.imports_on_top /\ found.late_imports
            THEN << file_info.path \o ": Imports nao estao no topo" >>
            ELSE << >>)
        \o (IF found.todos > 5
            THEN << file_info.path \o ": Muitos TODOs/FIXMEs ("
                    \o ToString(found.todos) \o ")" >>
            ELSE << >>)
  IN  Of(Scanned[file_info.content])

\* _check_best_practices: four checks per file.
CheckBestPractices(files) ==
  LET Result(issues, total_checks) ==
        [score         |-> Round2((total_checks - Len(issues)) * 100,
                                  Max(total_checks, 1)),
         issues        |-> FirstN(issues, 10),
         total_issues  |-> Len(issues),
         checks_passed |-> total_checks - Len(issues),
         total_checks  |-> total_checks]
  IN  Result(Concat([i \in 1..Len(files) |-> Issues(files[i])]), 4 * Len(files))

\* weights, in hundredths, in the order of the dict.
Weights ==
  << [category |-> "documentation",  weight |-> 25],
     [category |-> "testing",        weight |-> 30],
     [category |-> "naming",         weight |-> 15],
     [category |-> "complexity",     weight |-> 15],
     [category |-> "best_practices", weight |-> 15] >>

\* total, in ten-thousandths: the sum of score * weight over the weights.
WeightedTotal(scores) ==
  SumSeq([i \in 1..Len(Weights) |-> scores[Weights[i].category].score * Weights[i].weight])

\* The values round(x / 10000, 2) can take for a float x that carries the
\* float error of the weights: the nearest hundredth, and either
\* neighbour when x is a decimal half.
RoundTotal(total) ==
  IF total % 100 = 50 THEN {total \div 100, total \div 100 + 1}
  ELSE IF total % 100 < 50 THEN {total \div 100}
  ELSE {total \div 100 + 1}

\* A mean that gives every category the same weight.
UnweightedMean(scores) ==
  RoundTotal(20 * SumSeq([i \in 1..Len(Weights) |-> scores[Weights[i].category].score]))

\* _calculate_overall_score: the values of round(total, 2).
CalculateOverallScore(scores) == RoundTotal(WeightedTotal(scores))

\* _get_grade
GetGrade(score) ==
  IF score >= 9000 THEN "A (Excelente)"
  ELSE IF score >= 8000 THEN "B (Bom)"
  ELSE IF score >= 7000 THEN "C (Regular)"
  ELSE IF score >= 6000 THEN "D (Precisa Melhorar)"
  ELSE "F (Inadequado)"

\* The score below which a category gets a recommendation.
RecommendBelow ==
  << [category |-> "documentation",  below |-> 7000],
     [category |-> "testing",        below |-> 7000],
     [category |-> "naming",         below |-> 8000],
     [category |-> "complexity",     below |-> 7000],
     [category |-> "best_practices", below |-> 7500] >>

\* _generate_recommendations.  A recommendation is modelled by the category
\* it is about and the score it quotes; the fallback by its text.
GenerateRecommendations(scores) ==
  LET Low(entry) == scores[entry.category].score < entry.below
      low == SelectSeq(RecommendBelow, Low)
  IN  IF Len(low) = 0 THEN << "Codigo de alta qualidade!" >>
      ELSE [i \in 1..Len(low) |->
              [category |-> low[i].category, score |-> scores[low[i].category].score]]

\* _generate_summary: the score and grade of the first line, the sentence
\* of the second and the count of the third.
GenerateSummary(overall_score, recommendation_list) ==
  [score   |-> overall_score,
   grade   |-> GetGrade(overall_score),
   verdict |-> IF overall_score >= 8500
               THEN "Codigo bem estruturado e de alta qualidade. "
               ELSE IF overall_score >= 7000
               THEN "Codigo funcional com espaco para melhorias. "
               ELSE "Codigo necessita de atencao urgente em varias areas. ",
   actions |-> Len(recommendation_list)]

\* The five checks of execute, under the keys of its two dicts.
QualityScores(files) ==
  [documentation  |-> CheckDocumentation(files),
   testing        |-> CheckTesting(files),
   naming         |-> CheckNamingConventions(files),
   complexity     |-> CheckComplexity(files),
   best_practices |-> CheckBestPractices(files)]

\* The dict execute returns when round(total, 2) is overall_score.
QualityResult(scores, overall_score) ==
  LET recommendation_list == GenerateRecommendations(scores)
  IN
  [overall_quality_score |-> overall_score,
   quality_grade         |-> GetGrade(overall_score),
   detailed_scores       |->
     [documentation      |-> scores.documentation,
      testing            |-> scores.testing,
      naming_conventions |-> scores.naming,
      code_complexity    |-> scores.complexity,
      best_practices     |-> scores.best_practices],
   recommendations       |-> recommendation_list,
   summary               |-> GenerateSummary(overall_score, recommendation_list)]

\* The dicts execute can return for the scores of the five checks, one for
\* each value of round(total, 2).
ResultsOf(scores) ==
  {QualityResult(scores, overall_score) :
     overall_score \in CalculateOverallScore(scores)}

\* QualityCheckerTool.execute on a list of files.
QualityExecute(files) == ResultsOf(QualityScores(files))

(***************************************************************************)
(* The quality checker as a machine: a file list is written, then execute  *)
(* is called on it.                                                        *)
(***************************************************************************)

BeginQuality ==
  /\ qualityStatus = "idle"
  /\ qualityStatus' = "input"
  /\ UNCHANGED << quality_files, quality_report >>
  /\ UNCHANGED notQuality

AddQualityFile ==
  /\ qualityStatus = "input"
  /\ Len(quality_files) < MaxQualityFiles
  /\ \E path \in PathsAt(Len(quality_files) + 1), i \in 1..Len(Sources) :
       quality_files' = Append(quality_files,
                               [path |-> path, content |-> Sources[i].content,
                                language |-> Sources[i].language])
  /\ UNCHANGED << qualityStatus, quality_report >>
  /\ UNCHANGED notQuality

\* QualityCheckerTool.execute
CheckQuality ==
  /\ qualityStatus = "input"
  /\ \E result \in QualityExecute(quality_files) : quality_report' = Some(result)
  /\ qualityStatus' = "checked"
  /\ UNCHANGED quality_files
  /\ UNCHANGED notQuality

QualityNext == BeginQuality \/ AddQualityFile \/ CheckQuality

(***************************************************************************)
(* agent.py: the tool registry and the agent loop.                         *)
(*                                                                         *)
(* A message is [role, content]; a content block is a text block           *)
(* [type, text] or a tool_use block [type, id, name, input]; the input of  *)
(* a tool is a dict, a list of [key, value] entries.                       *)
(***************************************************************************)

\* key in dict
HasKey(dict, key) == \E i \in 1..Len(dict) : dict[i].key = key

\* dict[key]
ValueOf(dict, key) == dict[CHOOSE i \in 1..Len(dict) : dict[i].key = key].value

\* _register_tools: the names of self.tools, in order.
RegisteredTools ==
  << "code_analyzer", "architecture_detector", "dependency_mapper", "quality_checker" >>

\* tool.execute(tool_input) for the tools the responses below call: the
\* code analyzer reads input_data["code"] and input_data["language"], the
\* quality checker input_data["files"]; a missing key is a KeyError.
ToolExecute(tool_name, tool_input) ==
  IF tool_name = "code_analyzer"
  THEN IF ~HasKey(tool_input, "code") THEN Raised("KeyError: 'code'")
       ELSE IF ~HasKey(tool_input, "language") THEN Raised("KeyError: 'language'")
       ELSE CodeExecute(ValueOf(tool_input, "code"), ValueOf(tool_input, "language"))
  ELSE IF ~HasKey(tool_input, "files") THEN Raised("KeyError: 'files'")
       ELSE Returned(CHOOSE result \in QualityExecute(ValueOf(tool_input, "files")) : TRUE)

\* An execute_tool that returns an empty result for an unknown name.
ExecuteOrIgnore(tool_name, tool_input) ==
  IF tool_name \in Range(RegisteredTools)
  THEN ToolExecute(tool_name, tool_input)
  ELSE Returned(<< >>)

\* DocumentationAgent.execute_tool
ExecuteTool(tool_name, tool_input) ==
  IF tool_name \in Range(RegisteredTools)
  THEN ToolExecute(tool_name, tool_input)
  ELSE Raised("ValueError: Tool '" \o tool_name \o "' nao encontrada")

\* json.dumps(result, ensure_ascii=False): the text is modelled by the
\* value it encodes.
JsonDumps(result) == [json |-> result]

\* The entry the loop appends for one tool_use block.
ToolResult(tool_use) ==
  LET Of(outcome) ==
        IF outcome.status = "returned"
        THEN [type |-> "tool_result", tool_use_id |-> tool_use.id,
              content |-> JsonDumps(outcome.value)]
        ELSE [type |-> "tool_result", tool_use_id |-> tool_use.id,
              is_error |-> TRUE, content |-> outcome.exception]
  IN  Of(ExecuteTool(tool_use.name, tool_use.input))

IsToolUse(block) == block.type = "tool_use"

IsText(block) == block.type = "text"

\* "\n".join(block["text"] for block in content if block.get("type") == "text")
JoinedText(content) ==
  LET text_blocks == SelectSeq(content, IsText)
  IN  Join("\n", [i \in 1..Len(text_blocks) |-> text_blocks[i].text])

\* Is msg an assistant message with a text block?
HasText(msg) == msg.role = "assistant" /\ SelectSeq(msg.content, IsText) # << >>

\* A return after the loop of the text of the first assistant message that
\* has a text block.
FirstText(message_list) ==
  IF \E i \in 1..Len(message_list) : HasText(message_list[i])
  THEN JoinedText(message_list[CHOOSE i \in 1..Len(message_list) :
                                 /\ HasText(message_list[i])
                                 /\ \A j \in 1..(i - 1) :
                                      ~HasText(message_list[j])].content)
  ELSE "Erro: Nao foi possivel gerar documentacao"

\* The return after the loop: the text of the last assistant message that
\* has a text block, or the fixed error string.
LastText(message_list) ==
  IF \E i \in 1..Len(message_list) : HasText(message_list[i])
  THEN JoinedText(message_list[CHOOSE i \in 1..Len(message_list) :
                                 /\ HasText(message_list[i])
                                 /\ \A j \in (i + 1)..Len(message_list) :
                                      ~HasText(message_list[j])].content)
  ELSE "Erro: Nao foi possivel gerar documentacao"

MaxIterations == 3

\* The content blocks the responses are made of, by kind.
BlockOf(kind, round, position) ==
  LET id == "toolu_" \o ToString(round) \o "_" \o ToString(position)
  IN  CASE kind = "text" ->
             [type |-> "text", text |-> "text " \o ToString(round)]
        [] kind = "returns" ->
             [type |-> "tool_use", id |-> id, name |-> "code_analyzer",
              input |-> << [key |-> "code", value |-> "x = 1"],
                           [key |-> "language", value |-> "python"] >>]
        [] kind = "raises" ->
             [type |-> "tool_use", id |-> id, name |-> "code_analyzer",
              input |-> << [key |-> "code", value |-> "s = '~'"],
                           [key |-> "language", value |-> "python"] >>]
        [] kind = "missing" ->
             [type |-> "tool_use", id |-> id, name |-> "quality_checker",
              input |-> << >>]
        [] kind = "checks" ->
             [type |-> "tool_use", id |-> id, name |-> "quality_checker",
              input |-> << [key |-> "files", value |-> << >>] >>]
        [] kind = "unknown" ->
             [type |-> "tool_use", id |-> id, name |-> "file_reader",
              input |-> << >>]

\* The shapes of response["content"] the model API answers with.
ResponseShapes ==
  { << >>,
    << "text" >>,
    << "text", "returns" >>,
    << "raises", "returns" >>,
    << "unknown", "checks", "text" >>,
    << "returns", "missing", "unknown" >> }

ResponseContent(shape, round) ==
  [position \in 1..Len(shape) |-> BlockOf(shape[position], round, position)]

\* generate_documentation calls _run_agent_loop on the context message.
StartAgentLoop ==
  /\ agentStatus = "idle"
  /\ agentStatus' = "loop"
  /\ \E limit \in 1..MaxIterations : max_iterations' = limit
  /\ messages' = << [role |-> "user", content |-> "context"] >>
  /\ UNCHANGED << iteration, tool_uses, tool_results, tool_log, agent_output >>
  /\ UNCHANGED notAgent

\* One pass of the while body up to the tool loop: the model API is called
\* and answers; the answer is appended; without tool_use the loop returns.
CallApi ==
  /\ agentStatus = "loop"
  /\ iteration < max_iterations
  /\ iteration' = iteration + 1
  /\ \E shape \in ResponseShapes :
       LET content == ResponseContent(shape, iteration + 1)
           uses == SelectSeq(content, IsToolUse)
       IN  /\ messages' = Append(messages, [role |-> "assistant", content |-> content])
           /\ tool_uses' = uses
           /\ IF uses = << >>
              THEN /\ agentStatus' = "returned"
                   /\ agent_output' = Some(JoinedText(content))
              ELSE /\ agentStatus' = "tools"
                   /\ UNCHANGED agent_output
  /\ tool_results' = << >>
  /\ UNCHANGED << max_iterations, tool_log >>
  /\ UNCHANGED notAgent

\* call_api raises (a status other than 200, a network error): the
\* exception leaves _run_agent_loop.
ApiError ==
  /\ agentStatus = "loop"
  /\ iteration < max_iterations
  /\ iteration' = iteration + 1
  /\ agentStatus' = "raised"
  /\ UNCHANGED << max_iterations, messages, tool_uses, tool_results, tool_log, agent_output >>
  /\ UNCHANGED notAgent

\* The lines logger.info and logger.error write for one tool_use block: the
\* loop announces the tool, execute_tool announces a registered tool before
\* it runs it, the except branch reports the exception.
LogLines(tool_use) ==
  << [by |-> "loop", tool |-> tool_use.name] >>
  \o (IF tool_use.name \in Range(RegisteredTools)
      THEN << [by |-> "execute_tool", tool |-> tool_use.name] >>
      ELSE << >>)
  \o (IF "is_error" \in DOMAIN ToolResult(tool_use)
      THEN << [by |-> "except", tool |-> tool_use.name] >>
      ELSE << >>)

\* One pass of `for tool_use in tool_uses`: the tool runs, its result or
\* its exception is appended.
RunToolUse ==
  /\ agentStatus = "tools"
  /\ Len(tool_results) < Len(tool_uses)
  /\ LET tool_use == tool_uses[Len(tool_results) + 1]
     IN  /\ tool_results' = Append(tool_results, ToolResult(tool_use))
         /\ tool_log' = tool_log \o LogLines(tool_use)
  /\ UNCHANGED << agentStatus, max_iterations, iteration, messages, tool_uses, agent_output >>
  /\ UNCHANGED notAgent

\* The end of the round: the results are appended as one user message.
EndRound ==
  /\ agentStatus = "tools"
  /\ Len(tool_results) = Len(tool_uses)
  /\ messages' = Append(messages, [role |-> "user", content |-> tool_results])
  /\ agentStatus' = "loop"
  /\ UNCHANGED << max_iterations, iteration, tool_uses, tool_results, tool_log, agent_output >>
  /\ UNCHANGED notAgent

\* The while condition fails: the loop returns the last text.
ExitLoop ==
  /\ agentStatus = "loop"
  /\ iteration >= max_iterations
  /\ agentStatus' = "returned"
  /\ agent_output' = Some(LastText(messages))
  /\ UNCHANGED << max_iterations, iteration, messages, tool_uses, tool_results, tool_log >>
  /\ UNCHANGED notAgent

AgentNext ==
  StartAgentLoop \/ CallApi \/ ApiError \/ RunToolUse \/ EndRound \/ ExitLoop

(***************************************************************************)
(* Properties of cycle detection (checked under SpecDeps).                 *)
(***************************************************************************)

\* _detect_circular_dependencies has ended, by return or by an exception.
DfsEnded == dfsStatus \in {"returned", "raised"}

\* C1: whenever the internal dependency map contains a directed cycle, the
\* call returns a non-empty circular_dependencies; for the map
\* {module_a: [module_b], module_b: [module_a]} it holds a cycle with both.
C1_CycleIsReported ==
  DfsEnded =>
    /\ HasCycle(dependency_map) => dfsStatus = "returned" /\ Len(circular) > 0
    /\ dependency_map = << [path |-> "module_a", imports |-> << "module_b" >>],
                           [path |-> "module_b", imports |-> << "module_a" >>] >>
         => /\ dfsStatus = "returned"
            /\ \E c \in Range(circular) : {"module_a", "module_b"} \subseteq Range(c)

\* C2 as stated: every reported cycle, self-loops included, is a closed walk
\* of the dict of length at least 3.
C2_CyclesHaveLengthThree ==
  \A c \in Range(circular) : IsClosedWalk(dependency_map, c) /\ Len(c) >= 3

\* C2 as amended: every reported cycle is a closed walk of the dict that
\* repeats no module before its last element; its length is at least 2, and
\* it is 2 exactly for the self-loop [m, m] of a module that imports itself.
C2_CyclesAreClosedWalks ==
  \A c \in Range(circular) :
    /\ IsClosedWalk(dependency_map, c)
    /\ \A i, j \in 1..(Len(c) - 1) : c[i] = c[j] => i = j
    /\ Len(c) = 2 <=> c[1] = c[2]

\* The call returned a self-loop of length 2 and a cycle of length 3.
C2_Witness ==
  /\ dfsStatus = "returned"
  /\ \E c \in Range(circular) : Len(c) = 2
  /\ \E c \in Range(circular) : Len(c) = 3

(***************************************************************************)
(* Properties of the architecture detector (checked under SpecArch).       *)
(***************************************************************************)

\* The result of the last execute.
Result == report[1]

\* The names of the detected patterns.
DetectedNames == {Result.detected_patterns[i].pattern : i \in 1..Len(Result.detected_patterns)}

\* Every pattern entry of the result.
AllEntries ==
  Range(Result.detected_patterns) \cup Range(Result.primary_pattern)
  \cup Range(Result.secondary_patterns)

\* C3: with directory_names = ["models"] alone MVC is not among the detected
\* patterns; with ["models", "views", "controllers"] it is.
C3_MvcNeedsTwoDirectories ==
  (report # None /\ file_names = << >> /\ file_structure = << >>) =>
    /\ directory_names = << "models" >> => MVC.name \notin DetectedNames
    /\ directory_names = << "models", "views", "controllers" >> => MVC.name \in DetectedNames

\* C4: every entry of detected_patterns, primary_pattern and
\* secondary_patterns has a confidence in [0.0, 1.0].
C4_ConfidenceInUnitInterval ==
  report # None => \A p \in AllEntries : 0 <= p.confidence /\ p.confidence <= 100

\* A pattern whose raw score exceeds 1.0 is reported with confidence 1.0.
C4_Witness ==
  /\ report # None
  /\ \E p \in AllEntries : p.pattern = MVC.name /\ p.confidence = 100
  /\ SumSeq([i \in 1..Len(MatchedDirs(MVC, LowerAll(directory_names))) |->
               MatchedDirs(MVC, LowerAll(directory_names))[i].weight]) > 100

\* C5: detected_patterns is ordered by non-increasing confidence;
\* primary_pattern is null exactly when detected_patterns is empty, and
\* otherwise it is the first element and has the maximum confidence.
C5_SortedAndPrimaryIsMaximum ==
  report # None =>
    LET ps == Result.detected_patterns
    IN  /\ \A i \in 1..(Len(ps) - 1) : ps[i].confidence >= ps[i + 1].confidence
        /\ Result.primary_pattern = None <=> Len(ps) = 0
        /\ Len(ps) > 0 =>
             /\ Result.primary_pattern = Some(ps[1])
             /\ \A p \in Range(ps) : p.confidence <= Result.primary_pattern[1].confidence

\* The primary is a pattern detected last (a specialized detector) that
\* outranks a generic pattern detected before it.
C5_Witness ==
  /\ report # None
  /\ Len(Result.detected_patterns) >= 3
  /\ Result.primary_pattern[1].pattern = REPOSITORY_PATTERN.name
  /\ Result.detected_patterns[2].confidence > Result.detected_patterns[3].confidence

\* The names of the three domain-centric patterns of the catalog.
DomainCentricNames == {CLEAN_ARCHITECTURE.name, HEXAGONAL.name, DDD.name}

\* C6: classify_architecture_type returns "Domain-Centric Architecture"
\* whenever a pattern of the list, at any position, is Clean Architecture,
\* Hexagonal Architecture or Domain-Driven Design; directory_names =
\* ["domain", "application", "infrastructure"] detects Clean Architecture
\* and yields that type.
C6_DomainCentricOverridesPrimary ==
  /\ classified # None =>
       ((\E p \in Range(pattern_list) : p.pattern \in DomainCentricNames)
          => classified[1].architecture_type = "Domain-Centric Architecture")
  /\ report # None =>
       /\ DetectedNames \cap DomainCentricNames # {}
            => Result.architecture_type = "Domain-Centric Architecture"
       /\ directory_names = << "domain", "application", "infrastructure" >>
            => /\ CLEAN_ARCHITECTURE.name \in DetectedNames
               /\ Result.architecture_type = "Domain-Centric Architecture"

\* The classifiers were given a list whose primary is MVC with a higher
\* confidence, followed by a domain-centric pattern.
C6_Witness ==
  /\ classified # None
  /\ Len(pattern_list) = 2
  /\ pattern_list[1].pattern = MVC.name
  /\ pattern_list[2].pattern \in DomainCentricNames
  /\ pattern_list[1].confidence > pattern_list[2].confidence
  /\ classified[1].architecture_type = "Domain-Centric Architecture"

\* C7: the recommendations of every result are non-empty and hold no string
\* more than once.
C7_RecommendationsNonEmptyUnique ==
  report # None =>
    LET recs == Result.recommendations
    IN  /\ Len(recs) > 0
        /\ \A i, j \in 1..Len(recs) : recs[i] = recs[j] => i = j

\* execute returned the two generic suggestions for an input in which no
\* pattern is detected.
C7_Witness ==
  /\ report # None
  /\ Len(Result.detected_patterns) = 0
  /\ Len(Result.recommendations) = 2

(***************************************************************************)
(* Determinism of the external-dependency lists (checked under SpecExt).   *)
(***************************************************************************)

\* C8: invoking an analyzer twice with identical input yields identical
\* output, including the order of the production and development lists.
\* All calls of a behaviour are made on the same language and files.
C8_SameInputSameOutput ==
  \A i, j \in 1..Len(extCalls) : extCalls[i].result = extCalls[j].result

(***************************************************************************)
(* Independence of interleaved calls (checked under SpecConc).             *)
(***************************************************************************)

C10_ParseFailureIsReported ==
  (analysis # None /\ code_language = "python" /\ PyParse(code).outcome # "tree") =>
    /\ analysis[1].status = "returned"
    /\ {"error", "stats"} \subseteq DOMAIN analysis[1].value
    /\ {"structure", "metrics"} \cap DOMAIN analysis[1].value = {}

\* The language tags that have an analysis of their own.
AnalyzedLanguages == {"python", "javascript", "typescript"}

SplitLines(source) ==
  LET pieces == Split(source, "\n")
  IN  IF pieces[Len(pieces)] = "" THEN SubSeq(pieces, 1, Len(pieces) - 1)
      ELSE pieces

\* The basic statistics of a returned dict, under either of their keys.
ReportedStats(value) ==
  IF "stats" \in DOMAIN value THEN value.stats ELSE value.basic_stats

\* C12: on the python success path, the python parse-failure path and the
\* unsupported-language path alike, total_lines equals
\* len(code.splitlines()), so a final newline does not add a line.
C12_TotalLinesIsSplitlines ==
  (analysis # None /\ analysis[1].status = "returned") =>
    ReportedStats(analysis[1].value).total_lines = Len(SplitLines(code))

\* The logical lines of the analyzed text that define a function.
FunctionDefinitions ==
  LET ll == LogicalLines(Split(code, "\n"))
  IN  {ll[k] : k \in {j \in 1..Len(ll) :
                       \/ StartsWith(ll[j].text, "def ")
                       \/ StartsWith(ll[j].text, "async def ")}}

\* C13: for valid Python source every function definition, asynchronous
\* ones included, is recorded in structure.functions, with is_async true
\* exactly for the asynchronous definitions.
C13_AsyncFunctionsAreRecorded ==
  (/\ analysis # None
   /\ code_language = "python"
   /\ analysis[1].status = "returned"
   /\ "structure" \in DOMAIN analysis[1].value) =>
    \A d \in FunctionDefinitions :
      \E f \in Range(analysis[1].value.structure.functions) :
        /\ f.line = d.lineno
        /\ f.is_async = StartsWith(d.text, "async def ")

\* The files of the input that the call reads as package manifests.
PackageManifests ==
  {i \in 1..Len(mapper_files) : Contains("package.json", mapper_files[i].path)}

\* C14: when a package manifest of the input is malformed, the call still
\* returns, and the dependencies declared by the well-formed package
\* manifests of the same call are still reported.
C14_MalformedManifestKeepsOthers ==
  \A c \in 1..Len(extCalls) :
    (/\ mapper_language = "javascript"
     /\ \E i \in PackageManifests : JsonLoads(mapper_files[i].content) = None) =>
      \A i \in PackageManifests :
        LET declared == ParsePackageJson(mapper_files[i].content)
        IN  /\ Range(declared.production) \subseteq Range(extCalls[c].result.production)
            /\ Range(declared.development) \subseteq Range(extCalls[c].result.development)

(***************************************************************************)
(* Recommendations of the dependency mapper (checked under SpecRec).       *)
(***************************************************************************)

\* A recommendation that is one of the three warnings.
IsWarning(r) == r # HealthyMessage

\* C15: the recommendations list is never empty; it holds the affirmative
\* message if and only if none of the three warnings applies (no cycle, a
\* coupling level other than "high", at most 50 external dependencies), and
\* the affirmative message never stands next to a warning.
C15_HealthyIffNoWarning ==
  recStatus = "done" =>
    LET recs    == mapper_recommendations
        healthy == HealthyMessage \in Range(recs)
        clean   == /\ Len(circular_deps) = 0
                   /\ mapper_metrics[1].coupling_level # "high"
                   /\ external_count <= 50
    IN  /\ Len(recs) > 0
        /\ healthy <=> clean
        /\ healthy => \A r \in Range(recs) : ~IsWarning(r)
        /\ ~clean => Len(recs) = (IF Len(circular_deps) > 0 THEN 1 ELSE 0)
                              + (IF mapper_metrics[1].coupling_level = "high" THEN 1 ELSE 0)
                              + (IF external_count > 50 THEN 1 ELSE 0)

\* All three warnings apply at once.
C15_Witness ==
  /\ recStatus = "done"
  /\ Len(circular_deps) > 0
  /\ mapper_metrics[1].coupling_level = "high"
  /\ external_count > 50
  /\ Len(mapper_recommendations) = 3

QualityChecked == qualityStatus = "checked"

\* The dict the quality checker returned.
QualityReport == quality_report[1]

\* The five sub-scores of detailed_scores with their weights in hundredths.
ReturnedWeightedSum ==
  25 * QualityReport.detailed_scores.documentation.score
  + 30 * QualityReport.detailed_scores.testing.score
  + 15 * QualityReport.detailed_scores.naming_conventions.score
  + 15 * QualityReport.detailed_scores.code_complexity.score
  + 15 * QualityReport.detailed_scores.best_practices.score

ReturnedSubScores ==
  {QualityReport.detailed_scores.documentation.score,
   QualityReport.detailed_scores.testing.score,
   QualityReport.detailed_scores.naming_conventions.score,
   QualityReport.detailed_scores.code_complexity.score,
   QualityReport.detailed_scores.best_practices.score}

\* C16: overall_quality_score is the weighted sum 0.25 documentation + 0.30
\* testing + 0.15 naming + 0.15 complexity + 0.15 best practices of the
\* sub-scores returned in detailed_scores, rounded to two decimals (at most
\* half a hundredth away), and lies in [0, 100] when every sub-score does.
C16_OverallIsWeightedSum ==
  QualityChecked =>
    /\ 100 * QualityReport.overall_quality_score - ReturnedWeightedSum \in -50..50
    /\ ReturnedSubScores \subseteq 0..10000
          => QualityReport.overall_quality_score \in 0..10000

\* A call whose sub-scores differ, so that the weights matter, and whose
\* weighted sum is not a whole number of hundredths.
C16_Witness ==
  /\ QualityChecked
  /\ Cardinality(ReturnedSubScores) >= 4
  /\ ReturnedWeightedSum % 100 # 0

\* The files of the input _check_documentation looks at.
PythonFiles == SelectSeq(quality_files, IsPython)

\* The functions and classes _check_documentation counts in the input.
CountedFunctions ==
  LET Functions(f) == Scanned[f.content].functions
  IN  SumSeq([i \in 1..Len(PythonFiles) |-> Functions(PythonFiles[i])])

CountedClasses ==
  LET Classes(f) == Scanned[f.content].classes
  IN  SumSeq([i \in 1..Len(PythonFiles) |-> Classes(PythonFiles[i])])

DocumentedFunctions ==
  LET FuncWithDocs(f) == Scanned[f.content].func_with_docs
  IN  SumSeq([i \in 1..Len(PythonFiles) |-> FuncWithDocs(PythonFiles[i])])

ReturnedDocumentation == QualityReport.detailed_scores.documentation

\* C17: the documentation check returns for every file list: function
\* coverage is 0 when no function is counted, class coverage is 0 when no
\* class is counted, the score is 0 when neither exists and otherwise the
\* mean of the two coverages (up to the rounding of the three numbers), so
\* fully documented functions without a class score 50.
C17_DocumentationScoreIsMeanOrZero ==
  QualityChecked =>
    /\ CountedFunctions = 0 => ReturnedDocumentation.function_coverage = 0
    /\ CountedClasses = 0 => ReturnedDocumentation.class_coverage = 0
    /\ CountedFunctions + CountedClasses = 0 => ReturnedDocumentation.score = 0
    /\ CountedFunctions + CountedClasses > 0 =>
          2 * ReturnedDocumentation.score
            - (ReturnedDocumentation.function_coverage
               + ReturnedDocumentation.class_coverage) \in -2..2
    /\ (CountedFunctions > 0 /\ DocumentedFunctions = CountedFunctions
          /\ CountedClasses = 0) => ReturnedDocumentation.score = 5000

\* Fully documented functions and no class: the score is 50.
C17_Witness ==
  /\ QualityChecked
  /\ CountedFunctions > 0
  /\ DocumentedFunctions = CountedFunctions
  /\ CountedClasses = 0
  /\ ReturnedDocumentation.function_coverage = 10000
  /\ ReturnedDocumentation.score = 5000

\* Is the file at position i of the input named by an issue for its size?
FlaggedAsLarge(i) ==
  \E k \in 1..Len(QualityReport.detailed_scores.best_practices.issues) :
    StartsWith(QualityReport.detailed_scores.best_practices.issues[k],
               quality_files[i].path \o ": Arquivo muito grande")

\* C18: every file of the input whose content has more than 500 lines has
\* an entry naming it in the best-practices issues of the result.
C18_LargeFilesAreFlagged ==
  QualityChecked =>
    \A i \in 1..Len(quality_files) :
      Scanned[quality_files[i].content].lines > 500 => FlaggedAsLarge(i)

\* The history ends with the results of a round.
RoundEnded == Len(messages) > 1 /\ messages[Len(messages)].role = "user"

\* The tool_use blocks of the response of that round, and its results.
RoundUses == SelectSeq(messages[Len(messages) - 1].content, IsToolUse)

RoundResults == messages[Len(messages)].content

\* The tool of the block is not registered, or it raises on the input.
ToolFails(tool_use) ==
  \/ tool_use.name \notin Range(RegisteredTools)
  \/ ToolExecute(tool_use.name, tool_use.input).status = "raised"

IsAssistant(msg) == msg.role = "assistant"

IsRegisteredUse(block) == IsToolUse(block) /\ block.name \in Range(RegisteredTools)

ByExecuteTool(line) == line.by = "execute_tool"

\* The tool_use blocks with a registered name in the responses so far.
RegisteredUses ==
  LET replies == SelectSeq(messages, IsAssistant)
  IN  SumSeq([i \in 1..Len(replies) |-> Len(SelectSeq(replies[i].content, IsRegisteredUse))])

C20_DetectionReturnsWithoutRaising == DfsEnded => dfsStatus = "returned"

\* The nodes whose dfs call is active: the DFS path being explored.
ActiveNodes == {frames[i].node : i \in 1..Len(frames)}

\* C21: throughout cycle detection rec_stack holds exactly the nodes whose
\* dfs call is active; in particular it is empty between two DFS roots, also
\* after a cycle has been recorded.
C21_RecStackIsActivePath ==
  dfsStatus \in {"running", "returned"} => rec_stack = ActiveNodes

(***************************************************************************)
(* The generic detector against its table (checked under SpecArch).        *)
(***************************************************************************)

\* For each directory name of the vocabulary and each table-driven pattern
\* (by its position in the catalog order), the configured directory keywords
\* that are a substring of the lower-cased name.
KeywordsIn ==
  [d \in DirVocabulary |->
     [k \in 1..Len(GENERIC_PATTERNS) |->
        {GENERIC_PATTERNS[k].dir_weights[i].key : i \in
           {j \in 1..Len(GENERIC_PATTERNS[k].dir_weights) :
              Contains(GENERIC_PATTERNS[k].dir_weights[j].key, Lower(d))}}]]

\* For each file name of the vocabulary, the table-driven patterns one of
\* whose file keywords is a substring of the lower-cased name.
PatternsOfFile ==
  [f \in UNION {Range(files) : files \in FileLists} |->
     {k \in 1..Len(GENERIC_PATTERNS) :
        \E kw \in Range(GENERIC_PATTERNS[k].file_keywords) : Contains(kw, Lower(f))}]

\* The distinct configured keywords of pattern k matched by the input.
MatchedKeywords(k) == UNION {KeywordsIn[d][k] : d \in Range(directory_names)}

\* The number of file names of the input that contain a configured file
\* keyword of pattern k.
KeywordFiles(k) ==
  Cardinality({j \in 1..Len(file_names) : k \in PatternsOfFile[file_names[j]]})

\* The raw score of pattern k on the input, in hundredths.
RawScore(k) ==
  LET matched == MatchedKeywords(k)
      weights == GENERIC_PATTERNS[k].dir_weights
  IN  SumSeq([i \in 1..Len(weights) |->
                IF weights[i].key \in matched THEN weights[i].weight ELSE 0])
      + Min(5 * KeywordFiles(k), 20)

\* The entries of detected_patterns that carry the name of pattern k.
EntriesOf(k) ==
  {i \in 1..Len(Result.detected_patterns) :
     Result.detected_patterns[i].pattern = GENERIC_PATTERNS[k].name}

\* C22: each of the ten table-driven patterns is reported if and only if
\* at least min_dir_matches distinct configured keywords are substrings of
\* some lower-cased directory name and the raw score (the matched keywords'
\* weights plus min(0.05 * matching file names, 0.20)) reaches the
\* threshold; the reported confidence is min(raw score, 1.0).
C22_GenericPatternIffScoreReached ==
  report # None =>
    \A k \in 1..Len(GENERIC_PATTERNS) :
      LET raw == RawScore(k)
          entries == EntriesOf(k)
      IN  /\ entries # {} <=>
                /\ Cardinality(MatchedKeywords(k)) >= GENERIC_PATTERNS[k].min_dir_matches
                /\ raw >= GENERIC_PATTERNS[k].threshold
          /\ Cardinality(entries) <= 1
          /\ \A i \in entries : Result.detected_patterns[i].confidence = Min(raw, 100)

\* One table-driven pattern is reported with the bonus of one matching
\* file, one is rejected for too few matched keywords, and one has enough
\* matched keywords and a score below the threshold.
C22_Witness ==
  /\ report # None
  /\ \E k \in 1..Len(GENERIC_PATTERNS) :
       /\ EntriesOf(k) # {}
       /\ KeywordFiles(k) = 1
       /\ RawScore(k) < 100
  /\ \E k \in 1..Len(GENERIC_PATTERNS) :
       /\ MatchedKeywords(k) # {}
       /\ Cardinality(MatchedKeywords(k)) < GENERIC_PATTERNS[k].min_dir_matches
       /\ EntriesOf(k) = {}
  /\ \E k \in 1..Len(GENERIC_PATTERNS) :
       /\ Cardinality(MatchedKeywords(k)) >= GENERIC_PATTERNS[k].min_dir_matches
       /\ RawScore(k) < GENERIC_PATTERNS[k].threshold
       /\ EntriesOf(k) = {}

\* C23: Microservices is among the detected patterns only when at least
\* two directory names contain "service", whatever the structure keys and
\* the other directory names.
C23_MicroservicesNeedsTwoServices ==
  (report # None /\ ServiceDirCount(LowerAll(directory_names)) < 2)
    => MICROSERVICES.name \notin DetectedNames

\* The packages the recognized manifests of the input declare under the
\* given key (production or development).
DeclaredPackages(key) ==
  IF mapper_language = "python"
  THEN IF key = "production"
       THEN UNION {Range(ParseRequirementsTxt(mapper_files[i].content)) : i \in
                     {j \in 1..Len(mapper_files) :
                        Contains("requirements", Lower(mapper_files[j].path))}}
       ELSE {}
  ELSE UNION {Range(ParsePackageJson(mapper_files[i].content)[key]) : i \in PackageManifests}

\* C24: the production list of a call is the duplicate-free union of the
\* packages declared by all recognized manifests of the call, also with
\* several manifests of the same kind; likewise the development list.
C24_ListsAreUnionOfManifests ==
  \A c \in 1..Len(extCalls) : \A key \in {"production", "development"} :
    LET list == extCalls[c].result[key]
    IN  /\ Range(list) = DeclaredPackages(key)
        /\ \A i, j \in 1..Len(list) : list[i] = list[j] => i = j

(***************************************************************************)
(* The classifiers on a sorted pattern list (checked under SpecArch): the  *)
(* list handed to them directly, or detected_patterns of a report.         *)
(***************************************************************************)

\* The catalog names that contain a complex keyword, and those that contain
\* a simple keyword.
ComplexNames ==
  {ALL_PATTERNS[i].name : i \in
     {j \in 1..Len(ALL_PATTERNS) :
        \E cp \in COMPLEX_PATTERNS : Contains(cp, ALL_PATTERNS[j].name)}}

SimpleNames ==
  {ALL_PATTERNS[i].name : i \in
     {j \in 1..Len(ALL_PATTERNS) :
        \E sp \in SIMPLE_PATTERNS : Contains(sp, ALL_PATTERNS[j].name)}}

\* The priority order of the complexity levels on a list and its level.
ComplexityFollowsPriority(list, level) ==
  LET complex == \E p \in Range(list) : p.pattern \in ComplexNames
  IN  /\ Len(list) = 0 => level = "Unknown"
      /\ Len(list) > 0 =>
           LET high == complex /\ list[1].confidence > 70
               medium_high == complex \/ Len(list) >= 4
               medium == Len(list) >= 2 /\ list[1].confidence > 60
               low_medium == list[1].pattern \in SimpleNames
           IN  /\ high => level = "High (Enterprise-level)"
               /\ (~high /\ medium_high) => level = "Medium-High (Structured)"
               /\ (~high /\ ~medium_high /\ medium) => level = "Medium (Organized)"
               /\ (~high /\ ~medium_high /\ ~medium /\ low_medium)
                    => level = "Low-Medium (Simple & Pragmatic)"
               /\ (~high /\ ~medium_high /\ ~medium /\ ~low_medium)
                    => level = "Low (Basic)"

\* C25: assess_complexity follows the priority order Unknown (empty list),
\* High (a complex pattern anywhere and primary confidence > 0.7),
\* Medium-High (a complex pattern anywhere or at least 4 patterns), Medium
\* (at least 2 patterns and primary confidence > 0.6), Low-Medium (a simple
\* primary), Low.
C25_ComplexityFollowsPriority ==
  /\ classified # None =>
       ComplexityFollowsPriority(pattern_list, classified[1].complexity_level)
  /\ report # None =>
       ComplexityFollowsPriority(Result.detected_patterns, Result.complexity_level)

\* The classifiers were given four patterns, none complex, whose primary is
\* simple and has a confidence above 0.6: the level is Medium-High, not
\* Medium and not Low-Medium.
C25_Witness ==
  /\ classified # None
  /\ Len(pattern_list) = ManyPatterns
  /\ \A p \in Range(pattern_list) : p.pattern \notin ComplexNames
  /\ pattern_list[1].pattern \in SimpleNames
  /\ pattern_list[1].confidence > 60
  /\ classified[1].complexity_level = "Medium-High (Structured)"

\* The labels of the keyword table whose keyword the name contains, in the
\* order of the table.
LabelsOf(name) ==
  LET Hit(e) == Contains(e.keyword, name)
      hits == SelectSeq(ARCHITECTURE_TYPES, Hit)
  IN  [i \in 1..Len(hits) |-> hits[i].label]

\* The type of a list without a domain-centric pattern: the label of the
\* first keyword in the primary; without one, Layered when a name at any
\* position contains "Layered", else Custom/Mixed.
TypeFollowsPrimary(list, type) ==
  /\ Len(list) = 0 => type = "Arquitetura nao identificada"
  /\ (Len(list) > 0 /\ \A p \in Range(list) : p.pattern \notin DomainCentricNames) =>
       LET labels == LabelsOf(list[1].pattern)
           layered == \E p \in Range(list) : Contains("Layered", p.pattern)
       IN  /\ Len(labels) > 0 => type = labels[1]
           /\ (Len(labels) = 0 /\ layered) => type = "Layered Architecture"
           /\ (Len(labels) = 0 /\ ~layered) => type = "Custom/Mixed Architecture"

\* C26: without a domain-centric pattern classify_architecture_type returns
\* the label of the first keyword of the table found in the primary's
\* name; only without such a keyword it returns "Layered Architecture" when
\* a name at any position contains "Layered", and otherwise
\* "Custom/Mixed Architecture"; the empty list gives the unidentified label.
C26_TypeFollowsPrimary ==
  /\ classified # None => TypeFollowsPrimary(pattern_list, classified[1].architecture_type)
  /\ report # None =>
       TypeFollowsPrimary(Result.detected_patterns, Result.architecture_type)

\* The classifiers were given a primary without a keyword of the table,
\* followed by a layered pattern: the type is Layered.
C26_Witness ==
  /\ classified # None
  /\ Len(pattern_list) >= 2
  /\ LabelsOf(pattern_list[1].pattern) = << >>
  /\ ~Contains("Layered", pattern_list[1].pattern)
  /\ Contains("Layered", pattern_list[2].pattern)
  /\ classified[1].architecture_type = "Layered Architecture"

(***************************************************************************)
(* Monotonicity of detection in the file names (checked under SpecArch).   *)
(***************************************************************************)

\* The list without its element at position i.
Without(list, i) == SubSeq(list, 1, i - 1) \o SubSeq(list, i + 1, Len(list))

\* The patterns execute detects on the directories and structure keys of
\* the input with the given file names.
PatternsWith(files) ==
  CollectPatterns(LowerAll(directory_names), LowerAll(files), StructStr(file_structure))

\* Every pattern of `fewer` is in `more` with a confidence not lower.
KeepsPatterns(fewer, more) ==
  \A p \in Range(fewer) :
    \E q \in Range(more) : q.pattern = p.pattern /\ q.confidence >= p.confidence

\* C27: adding file names to an otherwise identical input removes no
\* pattern from detected_patterns and lowers no pattern's confidence.  The
\* report of an input with file names is compared with the detection on
\* the same input with one file name less, and with no file name.
C27_DetectionIsMonotoneInFiles ==
  (report # None /\ Len(file_names) > 0) =>
    /\ \A i \in 1..Len(file_names) :
         KeepsPatterns(PatternsWith(Without(file_names, i)), Result.detected_patterns)
    /\ KeepsPatterns(PatternsWith(<< >>), Result.detected_patterns)

\* A report in which the file names raised the confidence of a pattern
\* that is detected without them and brought in a pattern that is not.
C27_Witness ==
  /\ report # None
  /\ Len(file_names) > 0
  /\ \E p \in Range(PatternsWith(<< >>)) :
       \E q \in Range(Result.detected_patterns) :
         q.pattern = p.pattern /\ q.confidence > p.confidence
  /\ \E q \in Range(Result.detected_patterns) :
       \A p \in Range(PatternsWith(<< >>)) : p.pattern # q.pattern

\* The warning of _build_recommendations when no pattern name contains "test".
TestsWarning == "[!] Considere adicionar diretorio de testes (tests/, __tests__/)"

\* The message _build_recommendations falls back to when the list is empty.
FallbackMessage == "[ok] Arquitetura bem estruturada"

\* No name of the catalog contains "test" in lower case.
NoCatalogNameHasTest ==
  \A i \in 1..Len(ALL_PATTERNS) : ~Contains("test", Lower(ALL_PATTERNS[i].name))

\* C28: a report with at least one detected pattern recommends adding a
\* tests directory and never carries the fallback message; a report without
\* a pattern carries exactly the two generic suggestions.  No name of the
\* catalog contains "test".
C28_TestsWarningWheneverDetected ==
  /\ NoCatalogNameHasTest
  /\ report # None =>
       /\ Len(Result.detected_patterns) > 0 =>
            /\ TestsWarning \in Range(Result.recommendations)
            /\ FallbackMessage \notin Range(Result.recommendations)
       /\ Len(Result.detected_patterns) = 0 =>
            Result.recommendations = NoPatternRecommendations

\* A report whose patterns have no recommendation of their own: the tests
\* warning closes a list that would otherwise be empty or hold only the
\* remark on the primary pattern's confidence.
C28_Witness ==
  /\ report # None
  /\ Len(Result.detected_patterns) > 0
  /\ PatternSpecific(PATTERN_RECOMMENDATIONS, Result.detected_patterns) = << >>
  /\ Result.recommendations[Len(Result.recommendations)] = TestsWarning

\* Do the three line counts of stats add up to lines?
CountsAddUp(stats, lines) ==
  /\ stats.code_lines \in 0..lines
  /\ stats.blank_lines \in 0..lines
  /\ stats.comment_lines \in 0..lines
  /\ stats.code_lines + stats.blank_lines + stats.comment_lines = lines

\* C30: the statistics of every analysis that returns partition the lines
\* of the source text: total_lines is the sum of code_lines, blank_lines and
\* comment_lines, and every single line of the text is counted in exactly
\* one of the three.
C30_StatsPartitionTheLines ==
  (analysis # None /\ analysis[1].status = "returned") =>
    /\ CountsAddUp(ReportedStats(analysis[1].value),
                   ReportedStats(analysis[1].value).total_lines)
    /\ \A l \in Range(Split(code, "\n")) : CountsAddUp(GetBasicStats(l), 1)

\* An analysis of a text with a code line, a blank line and a comment line.
C30_Witness ==
  /\ analysis # None
  /\ analysis[1].status = "returned"
  /\ ReportedStats(analysis[1].value).code_lines > 0
  /\ ReportedStats(analysis[1].value).blank_lines > 0
  /\ ReportedStats(analysis[1].value).comment_lines > 0

(***************************************************************************)
(* The course of the agent loop (checked under LiveAgent).                 *)
(***************************************************************************)

\* Is msg a response without a tool_use block?
AnswersWithoutTool(msg) ==
  msg.role = "assistant" /\ SelectSeq(msg.content, IsToolUse) = << >>

\* The number of model calls that answered.
Responses == Cardinality({i \in 1..Len(messages) : messages[i].role = "assistant"})

\* The value returned: the joined text of the first response without
\* tool_use, which ends the loop; after max_iterations responses with
\* tool_use the text of the most recent assistant message that has a text
\* block, or the fixed error string.
ReturnsAsClaimed ==
  IF \E i \in 1..Len(messages) : AnswersWithoutTool(messages[i])
  THEN /\ AnswersWithoutTool(messages[Len(messages)])
       /\ \A i \in 1..(Len(messages) - 1) : ~AnswersWithoutTool(messages[i])
       /\ agent_output = Some(JoinedText(messages[Len(messages)].content))
  ELSE /\ Responses = max_iterations
       /\ \/ \E i \in 1..Len(messages) :
               /\ HasText(messages[i])
               /\ \A j \in (i + 1)..Len(messages) : ~HasText(messages[j])
               /\ agent_output = Some(JoinedText(messages[i].content))
          \/ /\ \A i \in 1..Len(messages) : ~HasText(messages[i])
             /\ agent_output = Some("Erro: Nao foi possivel gerar documentacao")

Init ==
  /\ mode = "idle"
  /\ directory_names = << >>
  /\ file_names = << >>
  /\ file_structure = << >>
  /\ report = None
  /\ pattern_list = << >>
  /\ classified = None
  /\ dependency_map = << >>
  /\ dfsStatus = "input"
  /\ circular = << >>
  /\ visited = {}
  /\ rec_stack = {}
  /\ frames = << >>
  /\ root = 1
  /\ extStatus = "idle"
  /\ mapper_language = ""
  /\ mapper_files = << >>
  /\ hashSeed = [p \in Processes |-> None]
  /\ extCalls = << >>
  /\ catalog = GENERIC_PATTERNS
  /\ callStatus = [c \in Calls |-> "idle"]
  /\ callInput = [c \in Calls |-> None]
  /\ frames_of = [c \in Calls |-> NoFrame]
  /\ callResult = [c \in Calls |-> None]
  /\ overlapped = FALSE
  /\ codeStatus = "idle"
  /\ source_lines = << >>
  /\ code = ""
  /\ code_language = ""
  /\ analysis = None
  /\ recStatus = "idle"
  /\ internal_deps = << >>
  /\ circular_deps = << >>
  /\ external_count = 0
  /\ mapper_metrics = None
  /\ mapper_recommendations = << >>
  /\ qualityStatus = "idle"
  /\ quality_files = << >>
  /\ quality_report = None
  /\ agentStatus = "idle"
  /\ max_iterations = 0
  /\ iteration = 0
  /\ messages = << >>
  /\ tool_uses = << >>
  /\ tool_results = << >>
  /\ tool_log = << >>
  /\ agent_output = None

(***************************************************************************)
(* Specifications.                                                          *)
(***************************************************************************)

\* The detector and the classifiers, over every input within the bounds.
SpecArch == Init /\ [][ArchNext]_vars

\* Cycle detection, over every dependency map within the bounds.
SpecDeps == Init /\ [][DfsNext]_vars

\* The external-dependency extraction run by several interpreter processes.
SpecExt == Init /\ [][ExtNext]_vars

\* Two calls of the detector on one instance, interleaved step by step.
SpecConc == Init /\ [][ConcNext]_vars

\* The code analyzer, over every source text within the bounds.
SpecCode == Init /\ [][CodeNext]_vars

\* The metrics and recommendations of the dependency mapper.
SpecRec == Init /\ [][RecNext]_vars

\* The quality checker, over every file list within the bounds.
SpecQuality == Init /\ [][QualityNext]_vars

\* The agent loop, over every course of responses within the bounds.
SpecAgent == Init /\ [][AgentNext]_vars

\* The agent loop as a sequential coroutine: a step that can be taken is
\* taken.  The model call, the end of a round and the return are fair as
\* they stand.  A tool run can be taken exactly while the round has a
\* tool_use left (the guard of RunToolUse), so its weak fairness is stated
\* on that guard: either the guard fails again and again, or tool runs go on.
LiveAgent ==
  /\ Init /\ [][AgentNext]_vars
  /\ WF_vars(StartAgentLoop \/ CallApi \/ ApiError \/ EndRound \/ ExitLoop)
  /\ \/ []<>(~(agentStatus = "tools" /\ Len(tool_results) < Len(tool_uses)))
     \/ []<><< agentStatus = "tools" /\ Len(tool_results') = Len(tool_results) + 1 >>_vars

====
